---- MODULE Spec2Model ----
(***************************************************************************)
(* Exposure engine of the SL1 firmware (sl1fw/libExposure.py): the worker  *)
(* thread ExposureThread.run with its layer loop, doFrame, doWait and      *)
(* doStuckRelease, and the command queue the Exposure object feeds from    *)
(* the page handlers (sl1fw/libPages.py).                                  *)
(***************************************************************************)
EXTENDS Integers, Sequences, FiniteSets, TLC

\* ------------------------------------------------------------------ bounds
\* layers of the project (config.totalLayers)
TotalLayers == 2
\* command tokens enqueued over one print
MaxCmds == 2
\* layers of the projects whose layer parameters are followed layer by layer
LayersInProject == 9

\* --------------------------------------------------------------- constants
\* hwConfig.whitePixelsThd: a layer with more white pixels is a slow layer
\* (1440 * 2560 * limit4fast / 100 in the firmware, scaled down here)
whitePixelsThd == 1

\* defines.tiltHomingTolerance (30 usteps in the firmware, scaled down here)
tiltHomingTolerance == 1
\* hw config tiltHeight: the position of the levelled tilt (scaled down)
tiltHeight == 4
\* hw config tiltMax: the limit of the unstuck loop (scaled down)
tiltMax == 4
\* layer_down_wait_async: step = Ustep(128) of the unstuck loop (scaled down)
unstuckStep == 2

\* the largest tilt position of the axis model and the number of calls of
\* the axis interface
MaxAxisPosition == 3
MaxAxisCalls == 3

\* the number of values of a profile and of later writes to a profile set
ValuesPerProfile == 2
MaxMutations == 1

\* the largest tower position converted, in microsteps
MaxMicrosteps == 6

\* the largest config.layersSlow and the number of layers torn off
MaxSlowLayers == 2
MaxTearLayers == 2

\* startProjectLoading: queue.Queue() has maxsize 0, a queue without limit
QueueMaxsize == 0

\* defines.resinMinVolume and defines.resinMaxVolume (scaled down)
resinMinVolume == 3
resinMaxVolume == 9

\* white-pixel counts blitImg can report: below, at and above the threshold
WhitePixelCounts == {whitePixelsThd - 1, whitePixelsThd, whitePixelsThd + 1}

VARIABLES
    commands,       \* Exposure.expoCommands: the queue.Queue of tokens
    enqLog,         \* every token put so far, in put order
    deqLog,         \* every token got so far: [tok, at] with the engine position
    pc,             \* position of ExposureThread.run
    i,              \* loop variable of the layer loop
    frame,          \* 1: first doFrame of the layer, 2: the per-partes one
    command,        \* local variable command of run()
    whitePixels,    \* white pixels of the first frame of the layer
    stuck,          \* local variable stuck of run()
    canceled,       \* Exposure.canceled
    actualLayer,    \* Exposure.actualLayer
    uvLed,          \* state of the UV LED (hw.uvLed)
    motorsOn,       \* motors energized (until hw.motorsRelease)
    page,           \* page forced on the display
    exposedLog,     \* <<layer index, frame>> of every exposure done
    rehomeLog,      \* result of every tiltSyncWait of doStuckRelease
    endCause,       \* why the layer loop ended
    uiPc,           \* position of the page handler exitPrint
    hwConfig,       \* hwConfig values the engine reads
    perPartes,      \* Exposure.perPartes
    wasStirring,    \* local variable wasStirring of run()
    exposureCompensation, \* local variable exposureCompensation of run()
    config,         \* Exposure.config: the PrintConfig of the project
    step,           \* local variable step of run(), in microsteps
    etime,          \* local variable etime of run(), times config.fadeLayers
    position,       \* Exposure.position, in microsteps
    resinCount,     \* Exposure.resinCount, in white pixels times micrometres
    tilt,           \* TiltSL1: the axis and the position of layer_down_wait_async
    ret,            \* what the last Exposure.doXxx call returned
    axis,           \* TiltSL1 position, move and stop, with the motion controller
    homing,         \* the home checks of the wizard and of the sensitivity page
    profileSet,     \* a ProfileSet: the loaded data and the constructed set
    units,          \* HwConfig: a tower position converted to nm and back
    checks,         \* the resin check before the print and its warning
    towerOnTop,     \* the platform was moved to the top after the layer loop
    tear,           \* doFrame: the tear-offs so far and Exposure.slowLayers
    updown,         \* doUpAndDown: its position, the tower and the cover
    api             \* Printer0: the printer state and the manual motion calls

vars == <<commands, enqLog, deqLog, pc, i, frame, command, whitePixels, stuck,
          canceled, actualLayer, uvLed, motorsOn, page, exposedLog, rehomeLog,
          endCause, uiPc, hwConfig, perPartes, wasStirring, exposureCompensation,
          config, step, etime, position, resinCount, tilt, ret, axis, homing,
          profileSet, units, checks, towerOnTop, tear, updown, api>>

\* the variables of the exposure engine and of its page handlers
engineVars == <<commands, enqLog, deqLog, pc, i, frame, command, whitePixels, stuck,
                canceled, actualLayer, uvLed, motorsOn, page, exposedLog, rehomeLog,
                endCause, uiPc, hwConfig, perPartes, wasStirring,
                exposureCompensation, config, step, etime, position, resinCount>>

\* the variables of the hardware layer and of the checks before the print
hwVars == <<tilt, axis, homing, profileSet, units, checks, tear, updown, api>>

\* everything but the one variable a part of the hardware layer works on
exceptTilt == <<engineVars, ret, towerOnTop, axis, homing, profileSet, units,
                checks, tear, updown, api>>
exceptAxis == <<engineVars, ret, towerOnTop, tilt, homing, profileSet, units,
                checks, tear, updown, api>>
exceptHoming == <<engineVars, ret, towerOnTop, tilt, axis, profileSet, units,
                  checks, tear, updown, api>>
exceptProfileSet == <<engineVars, ret, towerOnTop, tilt, axis, homing, units,
                      checks, tear, updown, api>>
exceptUnits == <<engineVars, ret, towerOnTop, tilt, axis, homing, profileSet,
                 checks, tear, updown, api>>
exceptChecks == <<engineVars, ret, towerOnTop, tilt, axis, homing,
                  profileSet, units, tear, updown, api>>
exceptTear == <<engineVars, ret, towerOnTop, tilt, axis, homing, profileSet,
                units, checks, updown, api>>
exceptUpdown == <<engineVars, ret, towerOnTop, tilt, axis, homing,
                  profileSet, units, checks, tear, api>>
exceptApi == <<engineVars, ret, towerOnTop, tilt, axis, homing, profileSet,
               units, checks, tear, updown>>

\* the project configuration and the per-layer values run() derives from it
layerVars == <<config, step, etime, position, resinCount>>

\* -------------------------------------------------------------- the tokens
NoCmd == "none"
Tokens == {"pause", "continue", "exit", "updown", "feedme", "feedmeByButton", "back"}

\* doWait: breakFree = set(("exit", "back", "continue"))
breakFree == {"exit", "back", "continue"}

\* ------------------------------------------------------- the command queue
\* queue.Queue.put: the token goes to the back of the queue
QueuePut(q, tok) == Append(q, tok)

\* a queue that hands out its newest token first
QueueGetLast(q) == [item |-> q[Len(q)], rest |-> SubSeq(q, 1, Len(q) - 1)]

\* queue.Queue.get_nowait on a queue that holds a token: the front one
QueueGet(q) == [item |-> Head(q), rest |-> Tail(q)]

\* the value get_nowait leaves in `command`: None when queue.Empty is raised
GetNowait == IF commands = <<>> THEN NoCmd ELSE QueueGet(commands).item

\* the effect of get_nowait on the queue, logged with the place of the call
Dequeue(at) ==
    /\ commands' = IF commands = <<>> THEN commands ELSE QueueGet(commands).rest
    /\ deqLog' = IF commands = <<>> THEN deqLog
                 ELSE Append(deqLog, [tok |-> QueueGet(commands).item, at |-> at])

\* doWait: the loop `while not command` ends once a command was got
\* (a non-empty string is true), or by the break on a breakFree token
doWaitEnds(c) == (c \in breakFree) \/ (c # NoCmd)

\* a queue that holds one token at most
QueueFullAtOne(q) == Len(q) >= 1

\* queue.Queue.put waits while `maxsize > 0 and qsize() >= maxsize`
QueueFull(q) == QueueMaxsize > 0 /\ Len(q) >= QueueMaxsize

\* Exposure.doXxx: self.expoCommands.put(tok) and nothing else, so the call
\* returns None; on a full queue the caller would wait inside put (the page
\* handlers run on the display thread, `after` is where the handler goes on)
Put(tok, after) ==
    /\ uiPc = "idle"
    /\ pc # "done"
    /\ Len(enqLog) < MaxCmds
    /\ IF QueueFull(commands)
       THEN /\ uiPc' = "blocked"
            /\ UNCHANGED <<commands, enqLog, ret>>
       ELSE /\ commands' = QueuePut(commands, tok)
            /\ enqLog' = Append(enqLog, tok)
            /\ ret' = "None"
            /\ uiPc' = after
    /\ UNCHANGED <<deqLog, pc, i, frame, command, whitePixels, stuck, canceled,
                   actualLayer, uvLed, motorsOn, page, exposedLog, rehomeLog,
                   endCause, hwConfig, perPartes, wasStirring, exposureCompensation>>
    /\ UNCHANGED layerVars
    /\ UNCHANGED <<towerOnTop, hwVars>>

doUpAndDown == Put("updown", "idle")
doFeedMe == Put("feedme", "idle")
doFeedMeByButton == Put("feedmeByButton", "idle")
doPause == Put("pause", "idle")
doContinue == Put("continue", "idle")
doBack == Put("back", "idle")

\* Page.exitPrint, first statement: self.display.expo.doExitPrint()
doExitPrint == Put("exit", "exitPut")

\* an exitPrint that leaves the canceled flag alone
exitPrintNoFlag ==
    /\ uiPc = "exitPut"
    /\ uiPc' = "idle"
    /\ UNCHANGED <<commands, enqLog, deqLog, pc, i, frame, command, whitePixels,
                   stuck, canceled, actualLayer, uvLed, motorsOn, page, exposedLog,
                   rehomeLog, endCause, hwConfig, perPartes, wasStirring,
                   exposureCompensation>>
    /\ UNCHANGED layerVars
    /\ UNCHANGED <<ret, towerOnTop, hwVars>>

\* Page.exitPrint, second statement: self.display.expo.canceled = True
exitPrint ==
    /\ uiPc = "exitPut"
    /\ canceled' = TRUE
    /\ uiPc' = "idle"
    /\ UNCHANGED <<commands, enqLog, deqLog, pc, i, frame, command, whitePixels,
                   stuck, actualLayer, uvLed, motorsOn, page, exposedLog, rehomeLog,
                   endCause, hwConfig, perPartes, wasStirring, exposureCompensation>>
    /\ UNCHANGED layerVars
    /\ UNCHANGED <<ret, towerOnTop, hwVars>>

\* the variables no step of the engine thread writes
uiVars == <<enqLog, uiPc, hwConfig, perPartes>>

\* ------------------------------------------------ ExposureThread.run, loop
\* a dispatch whose "exit" does not break
PollNextNoBreak(c) ==
    CASE c = "updown" -> "updown"
      [] c = "pause" -> "pauseWait"
      [] c \in {"feedme", "feedmeByButton"} -> "feedmeEnter"
      [] OTHER -> "periodic"

\* run: where the command got at the top of an iteration leads; "updown" runs
\* doUpAndDown, "exit" breaks, "pause" waits, the feedme tokens ask for resin
PollNext(c) ==
    CASE c = "updown" -> "updown"
      [] c = "exit" -> "finish"
      [] c = "pause" -> "pauseWait"
      [] c \in {"feedme", "feedmeByButton"} -> "feedmeEnter"
      [] OTHER -> "periodic"

\* a top of the iteration that leaves the UV LED lit when it enters a pause
PollCommandLedOn ==
    /\ pc = "poll"
    /\ Dequeue("poll")
    /\ command' = GetNowait
    /\ pc' = PollNext(GetNowait)
    /\ endCause' = IF PollNext(GetNowait) = "finish" THEN "exit" ELSE endCause
    /\ UNCHANGED <<i, frame, whitePixels, stuck, canceled, actualLayer, uvLed, motorsOn,
                   page, exposedLog, rehomeLog, wasStirring, exposureCompensation>>
    /\ UNCHANGED uiVars
    /\ UNCHANGED layerVars
    /\ UNCHANGED <<ret, towerOnTop, hwVars>>

\* run, top of an iteration: command = self.commands.get_nowait(), and the
\* dispatch on it up to the first call that drives the hardware
PollCommand ==
    /\ pc = "poll"
    /\ Dequeue("poll")
    /\ command' = GetNowait
    /\ pc' = PollNext(GetNowait)
    /\ endCause' = IF PollNext(GetNowait) = "finish" THEN "exit" ELSE endCause
    /\ uvLed' = IF GetNowait = "pause" /\ ~hwConfig.blinkExposure THEN FALSE ELSE uvLed
    /\ UNCHANGED <<i, frame, whitePixels, stuck, canceled, actualLayer, motorsOn,
                   page, exposedLog, rehomeLog, wasStirring, exposureCompensation>>
    /\ UNCHANGED uiVars
    /\ UNCHANGED layerVars
    /\ UNCHANGED <<ret, towerOnTop, hwVars>>

\* ExposureThread.doUpAndDown: the UV LED on when blinkExposure and
\* upAndDownUvOn, to the top, the timed wait, stirring, back to the position
doUpAndDownThread(next) ==
    /\ pc' = next
    /\ uvLed' = IF hwConfig.blinkExposure /\ hwConfig.upAndDownUvOn THEN TRUE ELSE uvLed
    /\ wasStirring' = TRUE
    /\ exposureCompensation' = hwConfig.upAndDownExpoComp
    /\ page' = "print"
    /\ motorsOn' = TRUE
    /\ UNCHANGED <<commands, deqLog, i, frame, command, whitePixels, stuck, canceled,
                   actualLayer, exposedLog, rehomeLog, endCause>>
    /\ UNCHANGED uiVars
    /\ UNCHANGED layerVars
    /\ UNCHANGED <<ret, towerOnTop, hwVars>>

\* run: if command == "updown"
CommandUpAndDown ==
    /\ pc = "updown"
    /\ doUpAndDownThread("periodic")

\* run: the condition of the periodic up and down
PeriodicDue ==
    /\ hwConfig.upAndDownEveryLayer # 0
    /\ actualLayer # 0
    /\ actualLayer % hwConfig.upAndDownEveryLayer = 0

\* run: if upAndDownEveryLayer and actualLayer and not actualLayer % upAndDownEveryLayer
PeriodicUpAndDown ==
    /\ pc = "periodic"
    /\ PeriodicDue
    /\ doUpAndDownThread("setup")

\* run, command == "pause": doWait(False), then break on "exit", else UV on again
PauseWait ==
    /\ pc = "pauseWait"
    /\ commands # <<>>
    /\ Dequeue("pauseWait")
    /\ IF ~doWaitEnds(GetNowait)
       THEN UNCHANGED <<pc, endCause, uvLed>>
       ELSE IF GetNowait = "exit"
            THEN /\ pc' = "finish"
                 /\ endCause' = "exit"
                 /\ UNCHANGED uvLed
            ELSE /\ pc' = "periodic"
                 /\ uvLed' = IF ~hwConfig.blinkExposure THEN TRUE ELSE uvLed
                 /\ UNCHANGED endCause
    /\ UNCHANGED <<i, frame, command, whitePixels, stuck, canceled, actualLayer,
                   motorsOn, page, exposedLog, rehomeLog, wasStirring,
                   exposureCompensation>>
    /\ UNCHANGED uiVars
    /\ UNCHANGED layerVars
    /\ UNCHANGED <<ret, towerOnTop, hwVars>>

\* run, command in ("feedme", "feedmeByButton"): tilt up and the feedme page
FeedMeEnter ==
    /\ pc = "feedmeEnter"
    /\ pc' = "feedmeWait"
    /\ page' = "feedme"
    /\ UNCHANGED <<commands, deqLog, i, frame, command, whitePixels, stuck, canceled,
                   actualLayer, uvLed, motorsOn, exposedLog, rehomeLog, endCause,
                   wasStirring, exposureCompensation>>
    /\ UNCHANGED uiVars
    /\ UNCHANGED layerVars
    /\ UNCHANGED <<ret, towerOnTop, hwVars>>

\* run, feedme: self.doWait(beep), its return value is not used
FeedMeWait ==
    /\ pc = "feedmeWait"
    /\ commands # <<>>
    /\ Dequeue("feedmeWait")
    /\ pc' = IF doWaitEnds(GetNowait) THEN "feedmeStir" ELSE pc
    /\ UNCHANGED <<i, frame, command, whitePixels, stuck, canceled, actualLayer,
                   uvLed, motorsOn, page, exposedLog, rehomeLog, endCause, wasStirring,
                   exposureCompensation>>
    /\ UNCHANGED uiVars
    /\ UNCHANGED layerVars
    /\ UNCHANGED <<ret, towerOnTop, hwVars>>

\* run, feedme: tilt down and stirring, wasStirring = True, back to the print page
FeedMeStir ==
    /\ pc = "feedmeStir"
    /\ pc' = "periodic"
    /\ wasStirring' = TRUE
    /\ page' = "print"
    /\ UNCHANGED <<commands, deqLog, i, frame, command, whitePixels, stuck, canceled,
                   actualLayer, uvLed, motorsOn, exposedLog, rehomeLog, endCause,
                   exposureCompensation>>
    /\ UNCHANGED uiVars
    /\ UNCHANGED layerVars
    /\ UNCHANGED <<ret, towerOnTop, hwVars>>

\* HwConfig.calcMM: round(float(microSteps) / self.microStepsMM, 3), with the
\* 800 microsteps per millimetre of the 4 mm screw; the value in micrometres
calcMM(microSteps) ==
    IF microSteps >= 0 THEN (10 * microSteps + 4) \div 8
    ELSE -((10 * (-microSteps) + 4) \div 8)

\* a step height that forgets the height of the first layer
LayerStepNormal(cfg, k) == cfg.layerMicroSteps

\* run: the step height of iteration k: the first layer has its own height,
\* the layers up to slice2 the normal one, then the second and the third one
LayerStep(cfg, k) ==
    IF k = 0 THEN cfg.layerMicroStepsFirst
    ELSE IF k < 3 THEN cfg.layerMicroSteps
    ELSE IF k < cfg.fadeLayers + 3 THEN cfg.layerMicroSteps
    ELSE IF k + 1 < cfg.slice2 THEN cfg.layerMicroSteps
    ELSE IF k + 1 < cfg.slice3 THEN cfg.layerMicroSteps2
    ELSE cfg.layerMicroSteps3

\* an exposure time that knows no third change of parameters
LayerTimeNoThird(cfg, k) ==
    IF k < 3 THEN cfg.expTimeFirst * cfg.fadeLayers
    ELSE IF k < cfg.fadeLayers + 3
         THEN cfg.expTimeFirst * cfg.fadeLayers - (k - 2) * (cfg.expTimeFirst - cfg.expTime)
    ELSE IF k + 1 < cfg.slice2 THEN cfg.expTime * cfg.fadeLayers
    ELSE cfg.expTime2 * cfg.fadeLayers

\* run: the exposure time of iteration k before the compensation, multiplied
\* by fadeLayers: timeLoss = (expTimeFirst - expTime) / float(fadeLayers) and
\* etime = expTimeFirst - (k - 2) * timeLoss in the fade
LayerTime(cfg, k) ==
    IF k = 0 THEN cfg.expTimeFirst * cfg.fadeLayers
    ELSE IF k < 3 THEN cfg.expTimeFirst * cfg.fadeLayers
    ELSE IF k < cfg.fadeLayers + 3
         THEN cfg.expTimeFirst * cfg.fadeLayers - (k - 2) * (cfg.expTimeFirst - cfg.expTime)
    ELSE IF k + 1 < cfg.slice2 THEN cfg.expTime * cfg.fadeLayers
    ELSE IF k + 1 < cfg.slice3 THEN cfg.expTime2 * cfg.fadeLayers
    ELSE cfg.expTime3 * cfg.fadeLayers

\* a layer setup that never clears the compensation
LayerSetupKeepComp ==
    /\ \/ pc = "setup"
       \/ pc = "periodic" /\ ~PeriodicDue
    /\ step' = LayerStep(config, i)
    /\ etime' = LayerTime(config, i) + exposureCompensation * config.fadeLayers
    /\ actualLayer' = i + 1
    /\ position' = position + LayerStep(config, i)
    /\ frame' = 1
    /\ pc' = "frameMove"
    /\ UNCHANGED <<commands, deqLog, i, command, whitePixels, stuck, canceled, uvLed,
                   motorsOn, page, exposedLog, rehomeLog, endCause, wasStirring,
                   exposureCompensation>>
    /\ UNCHANGED uiVars
    /\ UNCHANGED <<config, resinCount>>
    /\ UNCHANGED <<ret, towerOnTop, hwVars>>

\* run: step and etime of the layer, etime += exposureCompensation, the
\* compensation is cleared, actualLayer = i + 1, position += step, and the
\* first doFrame of the layer begins
LayerSetup ==
    /\ \/ pc = "setup"
       \/ pc = "periodic" /\ ~PeriodicDue
    /\ step' = LayerStep(config, i)
    /\ etime' = LayerTime(config, i) + exposureCompensation * config.fadeLayers
    /\ exposureCompensation' = 0
    /\ actualLayer' = i + 1
    /\ position' = position + LayerStep(config, i)
    /\ frame' = 1
    /\ pc' = "frameMove"
    /\ UNCHANGED <<commands, deqLog, i, command, whitePixels, stuck, canceled, uvLed,
                   motorsOn, page, exposedLog, rehomeLog, endCause, wasStirring>>
    /\ UNCHANGED uiVars
    /\ UNCHANGED <<config, resinCount>>
    /\ UNCHANGED <<ret, towerOnTop, hwVars>>

\* ------------------------------------------------- ExposureThread.doFrame
\* a doFrame that looks into the command queue while it moves the tower
FrameMovePolling ==
    /\ pc = "frameMove"
    /\ pc' = "frameExpose"
    /\ motorsOn' = TRUE
    /\ Dequeue("frameMove")
    /\ UNCHANGED <<i, frame, command, whitePixels, stuck, canceled, actualLayer,
                   uvLed, page, exposedLog, rehomeLog, endCause, wasStirring,
                   exposureCompensation>>
    /\ UNCHANGED uiVars
    /\ UNCHANGED layerVars
    /\ UNCHANGED <<ret, towerOnTop, hwVars>>

\* doFrame: the tower move to the layer position and tiltLayerUpWait
FrameMove ==
    /\ pc = "frameMove"
    /\ pc' = "frameExpose"
    /\ motorsOn' = TRUE
    /\ UNCHANGED <<commands, deqLog, i, frame, command, whitePixels, stuck, canceled,
                   actualLayer, uvLed, page, exposedLog, rehomeLog, endCause,
                   wasStirring, exposureCompensation>>
    /\ UNCHANGED uiVars
    /\ UNCHANGED layerVars
    /\ UNCHANGED <<ret, towerOnTop, hwVars>>

\* doFrame: blitImg gives the white pixels of the frame, the layer is exposed
\* for etime; with blinkExposure the LED is lit for the exposure only
FrameExpose ==
    /\ pc = "frameExpose"
    /\ \E wp \in WhitePixelCounts :
          whitePixels' = IF frame = 1 THEN wp ELSE whitePixels
    /\ exposedLog' = Append(exposedLog, <<i, frame, etime>>)
    /\ uvLed' = IF hwConfig.blinkExposure THEN FALSE ELSE uvLed
    /\ pc' = "frameTilt"
    /\ UNCHANGED <<commands, deqLog, i, frame, command, stuck, canceled, actualLayer,
                   motorsOn, page, rehomeLog, endCause, wasStirring,
                   exposureCompensation>>
    /\ UNCHANGED uiVars
    /\ UNCHANGED layerVars
    /\ UNCHANGED <<ret, towerOnTop, hwVars>>

\* run, after a doFrame that succeeded or was recovered: the per-partes second
\* frame when the first frame had more white pixels than the threshold
AfterFrame ==
    IF frame = 1 /\ perPartes /\ whitePixels > whitePixelsThd
    THEN pc' = "frameMove" /\ frame' = 2
    ELSE pc' = "layerEnd" /\ frame' = frame

\* doFrame: the tear-off, tiltLayerDownWait(slowMove); False when the tilt is stuck
FrameTiltDown ==
    /\ pc = "frameTilt"
    /\ \E ok \in BOOLEAN :
          IF ok \/ ~hwConfig.tilt
          THEN AfterFrame
          ELSE pc' = "stuckEnter" /\ frame' = frame
    /\ UNCHANGED <<commands, deqLog, i, command, whitePixels, stuck, canceled,
                   actualLayer, uvLed, motorsOn, page, exposedLog, rehomeLog, endCause,
                   wasStirring, exposureCompensation>>
    /\ UNCHANGED uiVars
    /\ UNCHANGED layerVars
    /\ UNCHANGED <<ret, towerOnTop, hwVars>>

\* ------------------------------------------ ExposureThread.doStuckRelease
\* a doStuckRelease that homes the tilt without asking
StuckEnterNoWait ==
    /\ pc = "stuckEnter"
    /\ pc' = "rehome"
    /\ page' = "wait"
    /\ UNCHANGED <<commands, deqLog, i, frame, command, whitePixels, stuck, canceled,
                   actualLayer, uvLed, motorsOn, exposedLog, rehomeLog, endCause,
                   wasStirring, exposureCompensation>>
    /\ UNCHANGED uiVars
    /\ UNCHANGED layerVars
    /\ UNCHANGED <<ret, towerOnTop, hwVars>>

\* doStuckRelease: towerHoldTiltRelease and the confirm page
StuckEnter ==
    /\ pc = "stuckEnter"
    /\ pc' = "stuckWait"
    /\ page' = "confirm"
    /\ UNCHANGED <<commands, deqLog, i, frame, command, whitePixels, stuck, canceled,
                   actualLayer, uvLed, motorsOn, exposedLog, rehomeLog, endCause,
                   wasStirring, exposureCompensation>>
    /\ UNCHANGED uiVars
    /\ UNCHANGED layerVars
    /\ UNCHANGED <<ret, towerOnTop, hwVars>>

\* a break after a failed release that never flags the print as canceled
StuckBreakNoCancel(cause) ==
    /\ pc' = "finish"
    /\ stuck' = TRUE
    /\ canceled' = canceled
    /\ endCause' = cause

\* run: `if not success and not self.doStuckRelease():` of the first frame sets
\* canceled and stuck, the one of the second frame sets stuck; both break
StuckBreak(cause) ==
    /\ pc' = "finish"
    /\ stuck' = TRUE
    /\ canceled' = IF frame = 1 THEN TRUE ELSE canceled
    /\ endCause' = cause

\* doStuckRelease: if self.doWait(True) == "back": return False
StuckWait ==
    /\ pc = "stuckWait"
    /\ commands # <<>>
    /\ Dequeue("stuckWait")
    /\ IF ~doWaitEnds(GetNowait)
       THEN UNCHANGED <<pc, stuck, canceled, endCause, page>>
       ELSE IF GetNowait = "back"
            THEN StuckBreak("stuckBack") /\ UNCHANGED page
            ELSE /\ pc' = "rehome"
                 /\ page' = "wait"
                 /\ UNCHANGED <<stuck, canceled, endCause>>
    /\ UNCHANGED <<i, frame, command, whitePixels, actualLayer, uvLed, motorsOn,
                   exposedLog, rehomeLog, wasStirring, exposureCompensation>>
    /\ UNCHANGED uiVars
    /\ UNCHANGED layerVars
    /\ UNCHANGED <<ret, towerOnTop, hwVars>>

\* doStuckRelease: tiltSyncWait(retries = 1); the error page when it fails,
\* stirring and the print page when it succeeds (return True)
StuckRehome ==
    /\ pc = "rehome"
    /\ \E ok \in BOOLEAN :
          /\ rehomeLog' = Append(rehomeLog, ok)
          /\ IF ok
             THEN AfterFrame /\ page' = "print"
             ELSE pc' = "errorWait" /\ page' = "error" /\ frame' = frame
    /\ UNCHANGED <<commands, deqLog, i, command, whitePixels, stuck, canceled,
                   actualLayer, uvLed, motorsOn, exposedLog, endCause, wasStirring,
                   exposureCompensation>>
    /\ UNCHANGED uiVars
    /\ UNCHANGED layerVars
    /\ UNCHANGED <<ret, towerOnTop, hwVars>>

\* doStuckRelease, homing failed: self.doWait(True); return False
StuckErrorWait ==
    /\ pc = "errorWait"
    /\ commands # <<>>
    /\ Dequeue("errorWait")
    /\ IF ~doWaitEnds(GetNowait)
       THEN UNCHANGED <<pc, stuck, canceled, endCause>>
       ELSE StuckBreak("rehomeFailed")
    /\ UNCHANGED <<i, frame, command, whitePixels, actualLayer, uvLed, motorsOn, page,
                   exposedLog, rehomeLog, wasStirring, exposureCompensation>>
    /\ UNCHANGED uiVars
    /\ UNCHANGED layerVars
    /\ UNCHANGED <<ret, towerOnTop, hwVars>>

\* -------------------------------------------- ExposureThread.run, the end
\* an end of the iteration that leaves the loop one layer early
LayerEndEarly ==
    /\ pc = "layerEnd"
    /\ wasStirring' = FALSE
    /\ IF i + 2 < config.totalLayers
       THEN i' = i + 1 /\ pc' = "poll" /\ UNCHANGED endCause
       ELSE i' = i /\ pc' = "finish" /\ endCause' = "complete"
    /\ UNCHANGED <<commands, deqLog, frame, command, whitePixels, stuck, canceled,
                   actualLayer, uvLed, motorsOn, page, exposedLog, rehomeLog,
                   exposureCompensation>>
    /\ UNCHANGED uiVars
    /\ UNCHANGED layerVars
    /\ UNCHANGED <<ret, towerOnTop, hwVars>>

\* run, end of an iteration: wasStirring = False, the next i or the end of
\* range (the resin accounting of the iteration is followed in RunLayer)
LayerEnd ==
    /\ pc = "layerEnd"
    /\ wasStirring' = FALSE
    /\ IF i + 1 < config.totalLayers
       THEN i' = i + 1 /\ pc' = "poll" /\ UNCHANGED endCause
       ELSE i' = i /\ pc' = "finish" /\ endCause' = "complete"
    /\ UNCHANGED <<commands, deqLog, frame, command, whitePixels, stuck, canceled,
                   actualLayer, uvLed, motorsOn, page, exposedLog, rehomeLog,
                   exposureCompensation>>
    /\ UNCHANGED uiVars
    /\ UNCHANGED layerVars
    /\ UNCHANGED <<ret, towerOnTop, hwVars>>

\* a closing part that leaves the UV LED as it is
FinishLedOn ==
    /\ pc = "finish"
    /\ uvLed' = uvLed
    /\ page' = "finished"
    /\ motorsOn' = FALSE
    /\ pc' = "done"
    /\ towerOnTop' = ~stuck
    /\ UNCHANGED <<commands, deqLog, i, frame, command, whitePixels, stuck, canceled,
                   actualLayer, exposedLog, rehomeLog, endCause, wasStirring,
                   exposureCompensation>>
    /\ UNCHANGED uiVars
    /\ UNCHANGED layerVars
    /\ UNCHANGED <<ret, hwVars>>

\* run, after the loop: uvLed(False), the platform to the top unless stuck, the
\* statistics, forcePage("finished"); PageFinished.show releases the motors
Finish ==
    /\ pc = "finish"
    /\ uvLed' = FALSE
    /\ page' = "finished"
    /\ motorsOn' = FALSE
    /\ pc' = "done"
    /\ towerOnTop' = ~stuck
    /\ UNCHANGED <<commands, deqLog, i, frame, command, whitePixels, stuck, canceled,
                   actualLayer, exposedLog, rehomeLog, endCause, wasStirring,
                   exposureCompensation>>
    /\ UNCHANGED uiVars
    /\ UNCHANGED layerVars
    /\ UNCHANGED <<ret, hwVars>>

\* the places of run where the next call drives the hardware and can raise;
\* doWait(True) calls hw.beepAlarm in its loop, doWait(False) calls no hardware
ThrowPcs == {"updown", "feedmeEnter", "feedmeStir", "setup", "frameMove",
             "frameExpose", "frameTilt", "stuckEnter", "stuckWait", "rehome",
             "errorWait", "finish"}

CanRaise == pc \in ThrowPcs \/ (pc = "feedmeWait" /\ command = "feedme")

\* run: `except Exception`: the exception is logged and the error page forced
HandleException ==
    /\ CanRaise
    /\ pc' = "done"
    /\ page' = "error"
    /\ endCause' = "exception"
    /\ UNCHANGED <<commands, deqLog, i, frame, command, whitePixels, stuck, canceled,
                   actualLayer, uvLed, motorsOn, exposedLog, rehomeLog, wasStirring,
                   exposureCompensation>>
    /\ UNCHANGED uiVars
    /\ UNCHANGED layerVars
    /\ UNCHANGED <<ret, towerOnTop, hwVars>>

\* ------------------------------------------- TiltSL1.layer_down_wait_async
\* the tilt axis while no layer_down_wait_async runs: levelled, off the endstop
TiltParked ==
    [pc |-> "parked", position |-> tiltHeight, endstop |-> FALSE,
     actual_profile |-> "moveFast",
     profile |-> [initial_profile |-> "none", offset_steps |-> 0,
                  finish_profile |-> "none", tilt_cycles |-> 0],
     movePerCycle |-> 0, cycle |-> 0, count |-> 0, moves |-> 0, profileSets |-> 0,
     rehomes |-> 0, exhausted |-> FALSE, homing_status |-> 0,
     dir |-> "down", subMoves |-> <<>>, delays |-> 0, unstuckLog |-> <<>>,
     tearOff |-> [done |-> FALSE, endstop |-> FALSE, position |-> 0, moves |-> 0,
                  profileSets |-> 0]]

\* SingleTuneTiltSL1: the tune profiles layer_down_wait_async is called with
TuneProfiles ==
    [initial_profile : {"layerRelease"}, offset_steps : {0, 1},
     finish_profile : {"layerMoveFast", "layerMoveSlow"}, tilt_cycles : {0, 1, 2}]

\* the integers from a to b, whichever is the larger
Between(a, b) == IF a <= b THEN a..b ELSE b..a

\* TiltSL1.move and the wait `while self.moving`: one more move call; the axis
\* stops at the target or, stalled or on the endstop, anywhere before it, and
\* the endstop is triggered or not
MoveWait(t, target) ==
    {[t EXCEPT !.position = p, !.endstop = e, !.moves = @ + 1] :
        p \in Between(t.position, target), e \in BOOLEAN}

\* layer_down_wait_async: the initial profile and the initial release move
\* when the tune profile has offset_steps
TiltInitialRelease ==
    /\ tilt.pc = "parked"
    /\ \E prof \in TuneProfiles :
          LET t == [tilt EXCEPT !.profile = prof, !.pc = "finishProfile",
                                !.actual_profile = prof.initial_profile,
                                !.profileSets = @ + 1]
          IN  IF prof.offset_steps > 0
              THEN tilt' \in MoveWait(t, t.position - prof.offset_steps)
              ELSE tilt' = t
    /\ UNCHANGED exceptTilt

\* layer_down_wait_async: the finish profile and movePerCycle =
\* self.position // profile.tilt_cycles, which raises for tilt_cycles = 0
TiltFinishProfile ==
    /\ tilt.pc = "finishProfile"
    /\ LET t == [tilt EXCEPT !.actual_profile = tilt.profile.finish_profile,
                              !.profileSets = @ + 1]
       IN  IF tilt.profile.tilt_cycles = 0
           THEN tilt' = [t EXCEPT !.pc = "raised"]
           ELSE tilt' = [t EXCEPT !.pc = "cycles",
                                  !.movePerCycle = t.position \div t.profile.tilt_cycles]
    /\ UNCHANGED exceptTilt

\* the state of the axis when the tear-off moves are over
TearOffDone(t) ==
    [done |-> TRUE, endstop |-> t.endstop, position |-> t.position,
     moves |-> t.moves, profileSets |-> t.profileSets]

\* one sub-move of the finish movement as it is commanded, and the sleep of
\* tilt_delay_ms that follows the wait for it
SubMove(m) ==
    [m EXCEPT !.cycle = @ + 1, !.delays = @ + 1,
              !.subMoves = Append(@, [size |-> m.movePerCycle,
                                      profile |-> m.actual_profile])]

\* a finish movement that is over after its first sub-move
TiltCycleOnce ==
    /\ tilt.pc = "cycles"
    /\ \E m \in MoveWait(tilt, tilt.position - tilt.movePerCycle) :
          tilt' = [SubMove(m) EXCEPT !.pc = "ensureBottom", !.tearOff = TearOffDone(m)]
    /\ UNCHANGED exceptTilt

\* layer_down_wait_async: one cycle of the split tear-off move
TiltCycle ==
    /\ tilt.pc = "cycles"
    /\ \E m \in MoveWait(tilt, tilt.position - tilt.movePerCycle) :
          tilt' = IF tilt.cycle + 1 < tilt.profile.tilt_cycles
                  THEN SubMove(m)
                  ELSE [SubMove(m) EXCEPT !.pc = "ensureBottom",
                                          !.tearOff = TearOffDone(m)]
    /\ UNCHANGED exceptTilt

\* an end of the tear-off that moves to the bottom without asking the endstop
TiltEnsureBottomAlways ==
    /\ tilt.pc = "ensureBottom"
    /\ \E m \in MoveWait(tilt, -tiltHomingTolerance) :
          tilt' = [m EXCEPT !.pc = "check"]
    /\ UNCHANGED exceptTilt

\* layer_down_wait_async: if not checkState("endstop"): move(-tolerance)
TiltEnsureBottom ==
    /\ tilt.pc = "ensureBottom"
    /\ IF ~tilt.endstop
       THEN \E m \in MoveWait(tilt, -tiltHomingTolerance) :
               tilt' = [m EXCEPT !.pc = "check"]
       ELSE tilt' = [tilt EXCEPT !.pc = "check"]
    /\ UNCHANGED exceptTilt

\* layer_down_wait_async: return when on the endstop and within the tolerance,
\* else the unstuck routine begins with the profile layerRelease
TiltCheck ==
    /\ tilt.pc = "check"
    /\ IF /\ tilt.endstop
          /\ -tiltHomingTolerance <= tilt.position
          /\ tilt.position <= tiltHomingTolerance
       THEN tilt' = [tilt EXCEPT !.pc = "returned"]
       ELSE tilt' = [tilt EXCEPT !.pc = "unstuck", !.actual_profile = "layerRelease",
                                 !.profileSets = @ + 1, !.count = 0]
    /\ UNCHANGED exceptTilt

\* one round of the unstuck loop: `self.position = step`, the move to the
\* home position and the wait for it, count += step
UnstuckRound(t, pos) ==
    {[m EXCEPT !.count = @ + unstuckStep,
               !.unstuckLog = Append(@, [position |-> pos, target |-> 0,
                                         profile |-> t.actual_profile,
                                         endstop |-> t.endstop])] :
        m \in MoveWait([t EXCEPT !.position = pos], 0)}

\* an unstuck loop that raises TiltHomeFailed itself once the travel is
\* exhausted, without homing the tilt again
TiltUnstuckRaise ==
    /\ tilt.pc = "unstuck"
    /\ IF tilt.count < tiltMax /\ ~tilt.endstop
       THEN tilt' \in UnstuckRound(tilt, unstuckStep)
       ELSE IF ~tilt.endstop
            THEN tilt' = [tilt EXCEPT !.pc = "homeFailed", !.exhausted = TRUE]
            ELSE tilt' = [tilt EXCEPT !.pc = "syncEnsure"]
    /\ UNCHANGED exceptTilt

\* an unstuck loop that goes one round past the travel
TiltUnstuckOneMore ==
    /\ tilt.pc = "unstuck"
    /\ IF tilt.count <= tiltMax /\ ~tilt.endstop
       THEN tilt' \in UnstuckRound(tilt, unstuckStep)
       ELSE tilt' = [tilt EXCEPT !.pc = "syncEnsure", !.exhausted = ~tilt.endstop]
    /\ UNCHANGED exceptTilt

\* an unstuck loop that sets the position one step further every round
TiltUnstuckGrowing ==
    /\ tilt.pc = "unstuck"
    /\ IF tilt.count < tiltMax /\ ~tilt.endstop
       THEN tilt' \in UnstuckRound(tilt, tilt.count + unstuckStep)
       ELSE tilt' = [tilt EXCEPT !.pc = "syncEnsure", !.exhausted = ~tilt.endstop]
    /\ UNCHANGED exceptTilt

\* layer_down_wait_async: the unstuck loop, `self.position = step`, a move to
\* the home position, count += step; the loop ends on the endstop or with the
\* travel exhausted (count >= tiltMax), and sync_ensure_async follows either way
TiltUnstuck ==
    /\ tilt.pc = "unstuck"
    /\ IF tilt.count < tiltMax /\ ~tilt.endstop
       THEN tilt' \in UnstuckRound(tilt, unstuckStep)
       ELSE tilt' = [tilt EXCEPT !.pc = "syncEnsure", !.exhausted = ~tilt.endstop]
    /\ UNCHANGED exceptTilt

\* the homing statuses a finished homing leaves: success, endstop not reached,
\* home check failed
HomingResults == {0, -2, -3}

\* sync_ensure_async(retries=0): the tilt is homed once; a homing that succeeds
\* leaves it on the endstop at the home position, one that fails raises
\* TiltHomeFailed (Tilt._raise_home_failed)
TiltSyncEnsure ==
    /\ tilt.pc = "syncEnsure"
    /\ \E status \in HomingResults :
          tilt' = IF status = 0
                  THEN [tilt EXCEPT !.pc = "returned", !.rehomes = @ + 1,
                                    !.homing_status = status,
                                    !.position = 0, !.endstop = TRUE]
                  ELSE [tilt EXCEPT !.pc = "homeFailed", !.rehomes = @ + 1,
                                    !.homing_status = status]
    /\ UNCHANGED exceptTilt

\* ------------------------------------------------- TiltSL1.layer_up_wait
\* layer_up_wait after a layer down that returned: the initial profile, the
\* move to _tiltHeight - offset_steps and the wait for it (the sleep of
\* offset_delay_ms follows)
TiltUpInitial ==
    /\ tilt.pc = "returned"
    /\ \E prof \in TuneProfiles :
          LET t == [TiltParked EXCEPT !.pc = "upFinishProfile", !.dir = "up",
                                      !.position = tilt.position,
                                      !.endstop = tilt.endstop,
                                      !.profile = prof,
                                      !.actual_profile = prof.initial_profile,
                                      !.profileSets = 1]
          IN  tilt' \in MoveWait(t, tiltHeight - prof.offset_steps)
    /\ UNCHANGED exceptTilt

\* layer_up_wait: the finish profile and movePerCycle =
\* (_tiltHeight - self.position) // profile.tilt_cycles, which raises for
\* tilt_cycles = 0
TiltUpFinishProfile ==
    /\ tilt.pc = "upFinishProfile"
    /\ LET t == [tilt EXCEPT !.actual_profile = tilt.profile.finish_profile,
                              !.profileSets = @ + 1]
       IN  IF tilt.profile.tilt_cycles = 0
           THEN tilt' = [t EXCEPT !.pc = "raised"]
           ELSE tilt' = [t EXCEPT !.pc = "upCycles",
                                  !.movePerCycle = (tiltHeight - t.position)
                                                      \div t.profile.tilt_cycles]
    /\ UNCHANGED exceptTilt

\* layer_up_wait: one cycle of the split finish move
TiltUpCycle ==
    /\ tilt.pc = "upCycles"
    /\ \E m \in MoveWait(tilt, tilt.position + tilt.movePerCycle) :
          tilt' = IF tilt.cycle + 1 < tilt.profile.tilt_cycles
                  THEN SubMove(m)
                  ELSE [SubMove(m) EXCEPT !.pc = "levelled"]
    /\ UNCHANGED exceptTilt

\* ------------------------------------ TiltSL1: position, moving, move, stop
\* the value of `ret` before any Exposure.doXxx was called
NotCalled == "not called"

\* positions of the tilt in the axis model, in microsteps (scaled down)
AxisPositions == 0..MaxAxisPosition

\* `x & 2`: the tilt bit of the "?mot" mask of moving motors (1: tower, 2: tilt)
TiltBit(m) == (m \div 2) % 2

\* `x & ~2`: the mask with the tilt bit cleared
ClearTiltBit(m) == m - 2 * TiltBit(m)

\* the mask with the tilt bit set, as the controller reports it after "!tima"
SetTiltBit(m) == ClearTiltBit(m) + 2

\* the tilt at rest at position 0, nothing moving; `position` and `target` are
\* the controller's "?tipo" and the target of its move, `target_position` is
\* TiltSL1._target_position, `log` the commands sent to the controller
AxisIdle ==
    [pc |-> "idle", position |-> 0, target |-> 0, mot |-> 0,
     target_position |-> 0, axis_moving |-> 0, log |-> <<>>,
     calls |-> 0, last |-> "none", raised |-> "none", truncated |-> FALSE]

\* TiltSL1.moving: self._mcc.doGetInt("?mot") & 2
AxisMoving(a) == TiltBit(a.mot) = 1

\* a position setter that does not ask whether the tilt is moving
AxisSetPositionUnchecked ==
    /\ axis.pc = "idle"
    /\ axis.calls < MaxAxisCalls
    /\ \E p \in AxisPositions :
          axis' = [axis EXCEPT !.log = Append(@, "!tipo"), !.position = p,
                               !.target_position = p, !.calls = @ + 1,
                               !.last = "position", !.raised = "none"]
    /\ UNCHANGED exceptAxis

\* TiltSL1.position setter: raises TiltPositionFailed while the tilt is moving,
\* else sends "!tipo" and sets _target_position
AxisSetPosition ==
    /\ axis.pc = "idle"
    /\ axis.calls < MaxAxisCalls
    /\ \E p \in AxisPositions :
          axis' = IF AxisMoving(axis)
                  THEN [axis EXCEPT !.log = Append(@, "?mot"), !.calls = @ + 1,
                                    !.last = "position",
                                    !.raised = "TiltPositionFailed"]
                  ELSE [axis EXCEPT !.log = @ \o <<"?mot", "!tipo">>,
                                    !.position = p, !.target_position = p,
                                    !.calls = @ + 1, !.last = "position",
                                    !.raised = "none"]
    /\ UNCHANGED exceptAxis

\* TiltSL1.move: sends "!tima" and sets _target_position; the controller
\* starts the move unless the tilt is at the target already
AxisMove ==
    /\ axis.pc = "idle"
    /\ axis.calls < MaxAxisCalls
    /\ \E p \in AxisPositions :
          axis' = [axis EXCEPT !.log = Append(@, "!tima"), !.target = p,
                               !.mot = IF p = axis.position THEN @ ELSE SetTiltBit(@),
                               !.target_position = p, !.calls = @ + 1,
                               !.last = "move", !.raised = "none"]
    /\ UNCHANGED exceptAxis

\* TiltSL1.stop, first statement: axis_moving = self._mcc.doGetInt("?mot")
AxisStopRead ==
    /\ axis.pc = "idle"
    /\ axis.calls < MaxAxisCalls
    /\ axis' = [axis EXCEPT !.pc = "stopWrite", !.axis_moving = axis.mot,
                            !.log = Append(@, "?mot"), !.calls = @ + 1]
    /\ UNCHANGED exceptAxis

\* a stop that halts the tilt and leaves _target_position at the move's target
AxisStopKeepTarget ==
    /\ axis.pc = "stopWrite"
    /\ axis' = [axis EXCEPT !.pc = "idle", !.mot = ClearTiltBit(axis.axis_moving),
                            !.log = Append(@, "!mot"),
                            !.truncated = axis.position # axis.target_position,
                            !.last = "stop", !.raised = "none"]
    /\ UNCHANGED exceptAxis

\* TiltSL1.stop, the rest: self._mcc.do("!mot", axis_moving & ~2) halts the
\* tilt, then self._target_position = self.position
AxisStop ==
    /\ axis.pc = "stopWrite"
    /\ axis' = [axis EXCEPT !.pc = "idle", !.mot = ClearTiltBit(axis.axis_moving),
                            !.log = @ \o <<"!mot", "?tipo">>,
                            !.target_position = axis.position,
                            !.truncated = axis.position # axis.target_position,
                            !.last = "stop", !.raised = "none"]
    /\ UNCHANGED exceptAxis

\* the motion controller: a moving tilt goes one microstep towards its target
\* and stops there, or stops short of it (stallguard, endstop)
McTiltStep ==
    /\ AxisMoving(axis)
    /\ \/ /\ axis.position # axis.target
          /\ LET p == IF axis.position < axis.target THEN axis.position + 1
                      ELSE axis.position - 1
             IN  axis' = [axis EXCEPT !.position = p,
                                      !.mot = IF p = axis.target
                                              THEN ClearTiltBit(@) ELSE @]
       \/ axis' = [axis EXCEPT !.mot = ClearTiltBit(@)]
    /\ UNCHANGED exceptAxis

\* the motion controller: the tower starts or ends a move of its own
McTowerStep ==
    /\ axis.calls < MaxAxisCalls
    /\ axis' = [axis EXCEPT !.mot = IF @ % 2 = 1 THEN @ - 1 ELSE @ + 1]
    /\ UNCHANGED exceptAxis

\* ------------------------------------------------------- the home checks
\* lengths of hw.towerAdjust['homingFast'], the table of sensitivity rows
\* (five rows for the sensitivities -2..2)
AdjustLens == {3, 4, 5}

\* no home check running
HomingIdle ==
    [pc |-> "idle", proc |-> "none", tries |-> 0, sensitivity |-> 0,
     adjustLen |-> 0, homes |-> 0, stalls |-> 0, status |-> 0, updates |-> 0,
     saved |-> FALSE, outcome |-> "none"]

\* the first statements of the three home checks: TiltHomeTest.async_task_run
\* (three rounds, no sensitivity), PageTowerSensitivity.contButtonRelease
\* (towerSensitivity = 0, updateMotorSensitivity, tries = 3) and the tower
\* home check of the wizard (towerSensitivity = -1, i = 0)
HomingStart ==
    /\ homing.pc = "idle"
    /\ \E n \in AdjustLens :
          \/ homing' = [homing EXCEPT !.pc = "loop", !.proc = "tiltHomeTest",
                                      !.adjustLen = n]
          \/ homing' = [homing EXCEPT !.pc = "loop", !.proc = "towerSensitivity",
                                      !.adjustLen = n, !.tries = 3, !.updates = 1]
          \/ homing' = [homing EXCEPT !.pc = "loop", !.proc = "wizardTower",
                                      !.adjustLen = n, !.sensitivity = -1]
    /\ UNCHANGED exceptHoming

\* the homing of one round: one more homing command and the status it ends with
Homed(h, status) ==
    [h EXCEPT !.homes = @ + 1, !.status = status,
              !.stalls = IF status = -3 THEN @ + 1 ELSE @]

\* TiltHomeTest.async_task_run: one round of `for _ in range(3)`, and after
\* the last round `if home_status == -3: raise TiltHomeCheckFailed()`
TiltHomeTestStep ==
    /\ homing.pc = "loop" /\ homing.proc = "tiltHomeTest"
    /\ \E status \in HomingResults :
          LET h == Homed(homing, status)
          IN  homing' =
                 IF status = -2
                 THEN [h EXCEPT !.pc = "done", !.outcome = "TiltEndstopNotReached"]
                 ELSE IF status = 0
                 THEN [h EXCEPT !.pc = "done", !.outcome = "ok"]
                 ELSE IF h.tries + 1 < 3
                 THEN [h EXCEPT !.tries = @ + 1]
                 ELSE [h EXCEPT !.tries = @ + 1, !.pc = "done",
                                !.outcome = IF status = -3 THEN "TiltHomeCheckFailed"
                                            ELSE "ok"]
    /\ UNCHANGED exceptHoming

\* a sensitivity page that handles "endstop not reached" like a failed check
TowerSensitivityStepRetry ==
    /\ homing.pc = "loop" /\ homing.proc = "towerSensitivity"
    /\ \E status \in HomingResults :
          LET h == Homed(homing, status)
          IN  homing' =
                 IF status \in {-2, -3}
                 THEN IF h.sensitivity + 1 >= h.adjustLen - 2
                      THEN [h EXCEPT !.sensitivity = @ + 1, !.tries = 3,
                                     !.pc = "done", !.outcome = "TowerHomeCheckFailed"]
                      ELSE [h EXCEPT !.sensitivity = @ + 1, !.tries = 3,
                                     !.updates = @ + 1]
                 ELSE IF h.tries - 1 > 0
                 THEN [h EXCEPT !.tries = @ - 1]
                 ELSE [h EXCEPT !.tries = @ - 1, !.pc = "done", !.saved = TRUE,
                                !.outcome = "ok"]
    /\ UNCHANGED exceptHoming

\* a sensitivity page that tries one sensitivity more than the table holds
TowerSensitivityStepLate ==
    /\ homing.pc = "loop" /\ homing.proc = "towerSensitivity"
    /\ \E status \in HomingResults :
          LET h == Homed(homing, status)
          IN  homing' =
                 IF status = -2
                 THEN [h EXCEPT !.pc = "done", !.outcome = "TowerEndstopNotReached"]
                 ELSE IF status = -3
                 THEN IF h.sensitivity + 1 >= h.adjustLen - 1
                      THEN [h EXCEPT !.sensitivity = @ + 1, !.tries = 3,
                                     !.pc = "done", !.outcome = "TowerHomeCheckFailed"]
                      ELSE [h EXCEPT !.sensitivity = @ + 1, !.tries = 3,
                                     !.updates = @ + 1]
                 ELSE IF h.tries - 1 > 0
                 THEN [h EXCEPT !.tries = @ - 1]
                 ELSE [h EXCEPT !.tries = @ - 1, !.pc = "done", !.saved = TRUE,
                                !.outcome = "ok"]
    /\ UNCHANGED exceptHoming

\* PageTowerSensitivity.contButtonRelease: one round of `while tries > 0`;
\* -2 returns "error" at once, -3 raises the sensitivity and starts the three
\* tries over or returns "error" past the table, anything else uses up a try
TowerSensitivityStep ==
    /\ homing.pc = "loop" /\ homing.proc = "towerSensitivity"
    /\ \E status \in HomingResults :
          LET h == Homed(homing, status)
          IN  homing' =
                 IF status = -2
                 THEN [h EXCEPT !.pc = "done", !.outcome = "TowerEndstopNotReached"]
                 ELSE IF status = -3
                 THEN IF h.sensitivity + 1 >= h.adjustLen - 2
                      THEN [h EXCEPT !.sensitivity = @ + 1, !.tries = 3,
                                     !.pc = "done", !.outcome = "TowerHomeCheckFailed"]
                      ELSE [h EXCEPT !.sensitivity = @ + 1, !.tries = 3,
                                     !.updates = @ + 1]
                 ELSE IF h.tries - 1 > 0
                 THEN [h EXCEPT !.tries = @ - 1]
                 ELSE [h EXCEPT !.tries = @ - 1, !.pc = "done", !.saved = TRUE,
                                !.outcome = "ok"]
    /\ UNCHANGED exceptHoming

\* the tower home check of the wizard: one round of `while True`; a success
\* counts up to `i > 3`, -2 returns "error", -3 raises the sensitivity and
\* sets i = 0 or returns "error" past the table
WizardTowerStep ==
    /\ homing.pc = "loop" /\ homing.proc = "wizardTower"
    /\ \E status \in HomingResults :
          LET h == Homed(homing, status)
          IN  homing' =
                 IF status = 0
                 THEN IF h.tries + 1 > 3
                      THEN [h EXCEPT !.tries = @ + 1, !.pc = "done", !.saved = TRUE,
                                     !.outcome = "ok"]
                      ELSE [h EXCEPT !.tries = @ + 1]
                 ELSE IF status = -2
                 THEN [h EXCEPT !.pc = "done", !.outcome = "TowerEndstopNotReached"]
                 ELSE IF h.sensitivity + 1 >= h.adjustLen - 2
                      THEN [h EXCEPT !.sensitivity = @ + 1, !.pc = "done",
                                     !.outcome = "TowerHomeCheckFailed"]
                      ELSE [h EXCEPT !.sensitivity = @ + 1, !.tries = 0,
                                     !.updates = @ + 1]
    /\ UNCHANGED exceptHoming

\* ----------------------------------------------------------- ProfileSet
\* MovingProfilesTiltSL1.__definition_order__ = tuple(locals()): the names of
\* the class body in declaration order (the first three profiles of the set)
DefinitionOrder ==
    <<"__module__", "__qualname__", "homingFast", "homingSlow", "moveFast">>

\* name.startswith("_")
Underscore(name) == name \in {"__module__", "__qualname__"}

\* the declared profiles, in declaration order
DeclaredProfiles == SelectSeq(DefinitionOrder, LAMBDA n : ~Underscore(n))

\* the values of one profile in the order of SingleProfile.__definition_order__;
\* a value without data reads None (set = FALSE)
ProfileValues == [1..ValuesPerProfile -> {[set |-> FALSE, value |-> 0],
                                          [set |-> TRUE, value |-> 1]}]

\* the sequences without repetition over the set S
Orders(S) ==
    {f \in UNION {[1..n -> S] : n \in 0..Cardinality(S)} :
        \A a, b \in DOMAIN f : f[a] = f[b] => a = b}

\* the profile data read_file can find: some of the declared profiles, in any
\* order, each with data for some of its values
ProfileFiles ==
    {[k \in DOMAIN names |-> [name |-> names[k], values |-> vals[k]]] :
        names \in Orders({DeclaredProfiles[k] : k \in DOMAIN DeclaredProfiles}),
        vals \in [1..Len(DeclaredProfiles) -> ProfileValues]}

\* getattr(self, name) for a profile without data
NoProfile == [name |-> "None", values |-> <<>>]

\* getattr(self, name): the profile of that name, None if there is no data
GetProfile(store, name) ==
    IF \E k \in DOMAIN store : store[k].name = name
    THEN store[CHOOSE k \in DOMAIN store : store[k].name = name]
    ELSE NoProfile

\* a constructor that does not look at the values of the profiles
RECURSIVE AssignIdxNoValues(_, _, _)
AssignIdxNoValues(names, store, idx) ==
    IF names = <<>> THEN [failed |-> FALSE, idx |-> <<>>]
    ELSE IF Underscore(Head(names)) THEN AssignIdxNoValues(Tail(names), store, idx)
    ELSE IF GetProfile(store, Head(names)) = NoProfile
         THEN [failed |-> TRUE, idx |-> <<>>]
    ELSE LET rest == AssignIdxNoValues(Tail(names), store, idx + 1)
         IN  [failed |-> rest.failed,
              idx |-> <<[name |-> Head(names), idx |-> idx]>> \o rest.idx]

\* ProfileSet.__init__, the loop over __definition_order__: a missing profile
\* or a value that reads None raises ConfigException, else the profile gets
\* its name and the next idx
RECURSIVE AssignIdx(_, _, _)
AssignIdx(names, store, idx) ==
    IF names = <<>> THEN [failed |-> FALSE, idx |-> <<>>]
    ELSE IF Underscore(Head(names)) THEN AssignIdx(Tail(names), store, idx)
    ELSE LET profile == GetProfile(store, Head(names))
         IN  IF profile = NoProfile
             THEN [failed |-> TRUE, idx |-> <<>>]
             ELSE IF \E j \in DOMAIN profile.values : ~profile.values[j].set
             THEN [failed |-> TRUE, idx |-> <<>>]
             ELSE LET rest == AssignIdx(Tail(names), store, idx + 1)
                  IN  [failed |-> rest.failed,
                       idx |-> <<[name |-> Head(names), idx |-> idx]>> \o rest.idx]

\* profile.idx as __init__ assigned it
IdxOf(ps, name) ==
    ps.idx[CHOOSE k \in DOMAIN ps.idx : ps.idx[k].name = name].idx

\* an iteration in the order the profile data was stored
IterStored(ps) ==
    [k \in DOMAIN ps.store |->
        [name |-> ps.store[k].name, idx |-> IdxOf(ps, ps.store[k].name)]]

\* ProfileSet.__iter__: getattr(self, name) for the names of
\* __definition_order__ that do not start with "_"
Iter(ps) ==
    [k \in DOMAIN DeclaredProfiles |->
        [name |-> GetProfile(ps.store, DeclaredProfiles[k]).name,
         idx |-> IdxOf(ps, DeclaredProfiles[k])]]

\* before the constructor ran
ProfileSetUnread ==
    [pc |-> "unread", store |-> <<>>, idx |-> <<>>, raised |-> "none",
     listed |-> <<>>, mutations |-> 0]

\* ProfileSet.__init__: read_file, then the loop that checks the data and
\* assigns name and idx
ProfileSetInit ==
    /\ profileSet.pc = "unread"
    /\ \E file \in ProfileFiles :
          LET r == AssignIdx(DefinitionOrder, file, 0)
          IN  profileSet' = IF r.failed
                            THEN [profileSet EXCEPT !.pc = "failed", !.store = file,
                                                    !.raised = "ConfigException"]
                            ELSE [profileSet EXCEPT !.pc = "ready", !.store = file,
                                                    !.idx = r.idx]
    /\ UNCHANGED exceptProfileSet

\* a value of a profile of the set is written (profile.value = v)
ProfileSetMutate ==
    /\ profileSet.pc = "ready"
    /\ profileSet.mutations < MaxMutations
    /\ \E k \in DOMAIN profileSet.store, j \in 1..ValuesPerProfile :
          profileSet' = [profileSet EXCEPT
                            !.store[k].values[j] = [set |-> TRUE, value |-> @.value + 1],
                            !.mutations = @ + 1]
    /\ UNCHANGED exceptProfileSet

\* list(profile_set)
ProfileSetList ==
    /\ profileSet.pc = "ready"
    /\ profileSet' = [profileSet EXCEPT !.listed = Iter(profileSet)]
    /\ UNCHANGED exceptProfileSet

\* ------------------------------------------- HwConfig: microsteps and nm
\* values of screwMm, the pitch of the tower screw in mm (4 by default)
ScrewPitches == {2, 4, 5}

\* HwConfig.tower_microstep_size_nm: (screwMm * 1000 * 1000) // (200 * 16)
tower_microstep_size_nm(screwMm) == (screwMm * 1000 * 1000) \div (200 * 16)

\* HwConfig.tower_microsteps_to_nm: the size of a microstep times the count
tower_microsteps_to_nm(screwMm, microsteps) ==
    tower_microstep_size_nm(screwMm) * microsteps

\* a conversion that rounds to the nearest microstep
nm_to_nearest_microsteps(screwMm, nanometers) ==
    (2 * nanometers + tower_microstep_size_nm(screwMm))
        \div (2 * tower_microstep_size_nm(screwMm))

\* HwConfig.nm_to_tower_microsteps: nanometers // tower_microstep_size_nm,
\* Python's floor division
nm_to_tower_microsteps(screwMm, nanometers) ==
    nanometers \div tower_microstep_size_nm(screwMm)

\* tower positions in microsteps, below and above the home position
Microsteps == (0 - MaxMicrosteps)..MaxMicrosteps

\* distances from a whole number of microsteps: none, 1 nm, just under and
\* just over half a microstep, 1 nm short of the next
NmOffsets(screwMm) ==
    {0, 1, (tower_microstep_size_nm(screwMm) - 1) \div 2,
     tower_microstep_size_nm(screwMm) \div 2 + 1,
     tower_microstep_size_nm(screwMm) - 1}

\* nothing converted yet
UnitsIdle ==
    [pc |-> "idle", screwMm |-> 4, microsteps |-> 0, nm |-> 0, back |-> 0,
     nanometers |-> 0, usteps |-> 0]

\* a tower position in microsteps is converted to nm
UnitsToNm ==
    /\ units.pc = "idle"
    /\ \E mm \in ScrewPitches, m \in Microsteps :
          units' = [units EXCEPT !.pc = "nm", !.screwMm = mm, !.microsteps = m,
                                 !.nm = tower_microsteps_to_nm(mm, m)]
    /\ UNCHANGED exceptUnits

\* the nm of that position are converted back to microsteps
UnitsBack ==
    /\ units.pc = "nm"
    /\ units' = [units EXCEPT !.pc = "back",
                               !.back = nm_to_tower_microsteps(units.screwMm, units.nm)]
    /\ UNCHANGED exceptUnits

\* a distance in nm that is no whole number of microsteps is converted
UnitsFromNm ==
    /\ units.pc = "idle"
    /\ \E mm \in ScrewPitches, m \in Microsteps :
          \E d \in NmOffsets(mm) :
             LET nm == tower_microsteps_to_nm(mm, m) + d
             IN  units' = [units EXCEPT !.pc = "usteps", !.screwMm = mm,
                                        !.nanometers = nm,
                                        !.usteps = nm_to_tower_microsteps(mm, nm)]
    /\ UNCHANGED exceptUnits

\* ------------------------------------------- the resin check and its warning
\* resin volumes the sensor can report, and volumes a project can require
\* (the volume the sensor cannot see included), in units of 0.1 ml scaled down
MeasuredVolumes == 0..resinMaxVolume
RequiredVolumes == (resinMinVolume + 1)..resinMaxVolume

\* before the checks of a print ran
ChecksIdle ==
    [pc |-> "idle", state |-> "CHECKS", measured |-> 0, required |-> 0,
     warning |-> "none", fatal_error |-> "none", page |-> "checks",
     decision |-> "none"]

\* the resin check of the print, as test_resin_enough, test_resin_warning and
\* test_resin_error expect it: under the minimum ResinTooLow is fatal at
\* once, under the volume required the warning ResinNotEnough is raised and
\* the state is CHECK_WARNING, else the checks pass
ResinCheck ==
    /\ checks.pc = "idle"
    /\ \E m \in MeasuredVolumes, r \in RequiredVolumes :
          LET c == [checks EXCEPT !.measured = m, !.required = r]
          IN  \/ /\ m <= resinMinVolume
                 /\ checks' = [c EXCEPT !.pc = "ended", !.state = "FAILURE",
                                         !.fatal_error = "ResinTooLow"]
              \/ /\ m >= resinMinVolume /\ m < r
                 /\ checks' = [c EXCEPT !.pc = "warning", !.state = "CHECK_WARNING",
                                         !.warning = "ResinNotEnough"]
              \/ /\ m >= r
                 /\ checks' = [c EXCEPT !.pc = "passed"]
    /\ UNCHANGED exceptChecks

\* PageCheckConfirm.prepare for a ResinNotEnough warning: the confirm page
\* with continueFce = confirm_print and backFce = cancel_print
CheckConfirmPrepare ==
    /\ checks.pc = "warning"
    /\ checks.warning = "ResinNotEnough"
    /\ checks.page = "checks"
    /\ checks' = [checks EXCEPT !.page = "confirm"]
    /\ UNCHANGED exceptChecks

\* Exposure.confirm_print_warning: the warning is dismissed and the checks
\* go on from where they were
confirm_print_warning(c) ==
    [c EXCEPT !.pc = "passed", !.state = "CHECKS", !.warning = "none",
              !.decision = "confirm"]

\* Exposure.reject_print_warning: the warning is escalated to the fatal error
\* WarningEscalation and the print ends
reject_print_warning(c) ==
    [c EXCEPT !.pc = "ended", !.state = "FAILURE", !.warning = "none",
              !.fatal_error = "WarningEscalation", !.decision = "reject"]

\* PageCheckConfirm.confirm_print
confirm_print ==
    /\ checks.pc = "warning"
    /\ checks.page = "confirm"
    /\ checks' = [confirm_print_warning(checks) EXCEPT !.page = "checks"]
    /\ UNCHANGED exceptChecks

\* a back button that confirms the warning
cancel_printConfirms ==
    /\ checks.pc = "warning"
    /\ checks.page = "confirm"
    /\ checks' = [confirm_print_warning(checks) EXCEPT !.page = "checks",
                                                        !.decision = "reject"]
    /\ UNCHANGED exceptChecks

\* PageCheckConfirm.cancel_print
cancel_print ==
    /\ checks.pc = "warning"
    /\ checks.page = "confirm"
    /\ checks' = [reject_print_warning(checks) EXCEPT !.page = "checks"]
    /\ UNCHANGED exceptChecks

\* the checks are over without a fatal error: the print starts
ChecksPassed ==
    /\ checks.pc = "passed"
    /\ checks' = [checks EXCEPT !.pc = "printing", !.state = "PRINTING"]
    /\ UNCHANGED exceptChecks


\* ------------------------------------------------ doFrame: the tear-off
\* a slowMove that takes a layer at the threshold for a slow one
slowMoveAtThd(wp) == wp >= whitePixelsThd

\* doFrame: slowMove = whitePixels > self.expo.hwConfig.whitePixelsThd
slowMove(wp) == wp > whitePixelsThd

\* TiltSL1.get_tune_profile_down: the large-fill tune profile for a slow move
get_tune_profile_down(slow_move) ==
    IF slow_move THEN "tilt_down_large_fill" ELSE "tilt_down_small_fill"

\* before collectProjectData
TearIdle ==
    [pc |-> "idle", tilt |-> TRUE, perPartes |-> FALSE, layersSlow |-> 0,
     slowLayers |-> 0, layers |-> 0, whitePixels |-> 0, log |-> <<>>]

\* Exposure.collectProjectData: self.slowLayers = self.config.layersSlow, with
\* the hwConfig.tilt and the perPartes of the print
TearCollectProjectData ==
    /\ tear.pc = "idle"
    /\ \E n \in 0..MaxSlowLayers, t \in BOOLEAN, pp \in BOOLEAN :
          tear' = [tear EXCEPT !.pc = "first", !.tilt = t, !.perPartes = pp,
                               !.layersSlow = n, !.slowLayers = n]
    /\ UNCHANGED exceptTear

\* doFrame, `if self.expo.hwConfig.tilt`: slowMove, the decrement of a
\* slowLayers that is not zero, tiltLayerDownWait(slowMove)
TearOff(t, wp, second) ==
    IF t.tilt
    THEN [t EXCEPT !.slowLayers = IF slowMove(wp) /\ @ # 0 THEN @ - 1 ELSE @,
                   !.log = Append(@, [whitePixels |-> wp, second |-> second,
                                      slowMove |-> slowMove(wp),
                                      profile |-> get_tune_profile_down(slowMove(wp))])]
    ELSE t

\* run: the first doFrame of a layer; the second one follows under perPartes
\* when the white pixels are over the threshold
TearFirstFrame ==
    /\ tear.pc = "first"
    /\ tear.layers < MaxTearLayers
    /\ \E wp \in WhitePixelCounts :
          LET t == TearOff(tear, wp, FALSE)
          IN  tear' = IF tear.perPartes /\ wp > whitePixelsThd
                      THEN [t EXCEPT !.pc = "second", !.whitePixels = wp]
                      ELSE [t EXCEPT !.layers = @ + 1, !.whitePixels = wp]
    /\ UNCHANGED exceptTear

\* run: the second doFrame of a layer printed per partes
TearSecondFrame ==
    /\ tear.pc = "second"
    /\ \E wp \in WhitePixelCounts :
          tear' = [TearOff(tear, wp, TRUE) EXCEPT !.pc = "first", !.layers = @ + 1]
    /\ UNCHANGED exceptTear

\* ------------------------------------- ExposureThread.doUpAndDown, alone
\* the longest upAndDownWait of the model, in seconds
MaxUpAndDownWait == 2

\* before doUpAndDown is called; cover is what isCoverClosed would return
UpdownIdle ==
    [pc |-> "idle", cover |-> TRUE, coverCheck |-> FALSE, upAndDownWait |-> 0,
     tilt |-> FALSE, zoffset |-> 0, position |-> 0, sec |-> 0,
     powerLed |-> "normal", uvLed |-> FALSE, profile |-> "layer",
     towerTarget |-> "none", stirred |-> FALSE, page |-> "print",
     line1 |-> ""]

\* the cover is opened or closed by the user
CoverToggle ==
    /\ updown.pc # "done"
    /\ updown' = [updown EXCEPT !.cover = ~@]
    /\ UNCHANGED exceptUpdown

\* doUpAndDown: the power led, the UV led, the wait page, the move to the top
UpdownStart ==
    /\ updown.pc = "idle"
    /\ \E cc \in BOOLEAN, w \in 0..MaxUpAndDownWait, t \in BOOLEAN,
          z \in {-1, 0}, p \in 0..1, uv \in BOOLEAN :
          updown' = [updown EXCEPT !.pc = "toTop", !.coverCheck = cc,
                                   !.upAndDownWait = w, !.tilt = t,
                                   !.zoffset = z, !.position = p,
                                   !.powerLed = "warn", !.uvLed = uv,
                                   !.profile = "homingFast",
                                   !.towerTarget = "top", !.page = "wait",
                                   !.line1 = "Going to the top position"]
    /\ UNCHANGED exceptUpdown

\* where the loop over the seconds goes after second number n
AfterSecond(u, n) ==
    IF n < u.upAndDownWait THEN "wait" ELSE "stir"

\* doUpAndDown: the tower is on top, the loop over the seconds is entered
UpdownOnTop ==
    /\ updown.pc = "toTop"
    /\ updown' = [updown EXCEPT !.pc = AfterSecond(updown, 0)]
    /\ UNCHANGED exceptUpdown

\* a second of the wait that does not look at the cover
UpdownSecondNoCheck ==
    /\ updown.pc = "wait"
    /\ updown' = [updown EXCEPT !.sec = @ + 1,
                                !.line1 = "Printing will continue",
                                !.pc = AfterSecond(updown, updown.sec + 1)]
    /\ UNCHANGED exceptUpdown

\* doUpAndDown: one second of the wait, sleep(1) and the look at the cover
UpdownSecond ==
    /\ updown.pc = "wait"
    /\ updown' = IF updown.coverCheck /\ ~updown.cover
                 THEN [updown EXCEPT !.sec = @ + 1, !.line1 = "Paused",
                                     !.pc = "coverWait"]
                 ELSE [updown EXCEPT !.sec = @ + 1,
                                     !.line1 = "Printing will continue",
                                     !.pc = AfterSecond(updown, updown.sec + 1)]
    /\ UNCHANGED exceptUpdown

\* doUpAndDown: `while not isCoverClosed(): sleep(1)`
UpdownCoverWait ==
    /\ updown.pc = "coverWait"
    /\ updown' = IF updown.cover
                 THEN [updown EXCEPT !.pc = AfterSecond(updown, updown.sec)]
                 ELSE updown
    /\ UNCHANGED exceptUpdown

\* doUpAndDown: the resin is stirred, the position gets the offset and the
\* tower is sent back
UpdownBack ==
    /\ updown.pc = "stir"
    /\ LET pos == IF updown.position + updown.zoffset < 0 THEN 0
                  ELSE updown.position + updown.zoffset
       IN  updown' = [updown EXCEPT !.pc = "back", !.stirred = updown.tilt,
                                    !.position = pos, !.towerTarget = pos,
                                    !.line1 = "Going back"]
    /\ UNCHANGED exceptUpdown

\* doUpAndDown: the tower is on position, the layer profile, the power led and
\* the print page
UpdownDone ==
    /\ updown.pc = "back"
    /\ updown' = [updown EXCEPT !.pc = "done", !.profile = "layer",
                                !.powerLed = "normal", !.page = "print"]
    /\ UNCHANGED exceptUpdown

\* --------------------------------------------- Printer0, the motion calls
\* the calls of one run and the longest page stack of the model
MaxApiCalls == 2
MaxPageStack == 1

\* the pages of the model; PAGE_TO_STATE has an entry for some of them
ApiPages == {"home", "print", "printstart", "admin", "feedme"}

PAGE_TO_STATE ==
    [p \in {"print", "printstart", "admin"} |->
        IF p = "admin" THEN "ADMIN" ELSE "PRINTING"]

PageStacks ==
    UNION {[1..n -> ApiPages] : n \in 0..MaxPageStack}

\* Printer0.state: the loop over the page stack and the actual page, the state
\* of the first page that PAGE_TO_STATE knows
RECURSIVE FirstMapped(_)
FirstMapped(ps) ==
    IF ps = <<>> THEN "IDLE"
    ELSE IF Head(ps) \in DOMAIN PAGE_TO_STATE THEN PAGE_TO_STATE[Head(ps)]
         ELSE FirstMapped(Tail(ps))

\* Printer0.state: the display test first, the pages only when
\* get_actual_page_stack() is true (not empty), IDLE otherwise
Printer0StateOf(a) ==
    IF a.display_test THEN "DISPLAY_TEST"
    ELSE IF a.stack # <<>> THEN FirstMapped(Append(a.stack, a.actualPage))
         ELSE "IDLE"

\* a decorator that lets every call through
state_checkedNever(a, allowed_state) == TRUE

\* state_checked: the call goes through when self.state is the allowed state,
\* NotAvailableInState is raised otherwise
state_checked(a, allowed_state) == Printer0StateOf(a) = allowed_state

\* the printer after construction of Printer0, no call made yet
ApiIdle ==
    [actualPage |-> "home", stack |-> <<>>, display_test |-> FALSE,
     tower_moving |-> FALSE, tilt_moving |-> FALSE, calls |-> 0,
     last |-> "none", issued |-> <<>>, result |-> "none"]

\* the display goes to another page, a display test starts or ends
ApiPageChange ==
    /\ \E pg \in ApiPages, st \in PageStacks, dt \in BOOLEAN :
          /\ <<pg, st, dt>> # <<api.actualPage, api.stack, api.display_test>>
          /\ api' = [api EXCEPT !.actualPage = pg, !.stack = st,
                                !.display_test = dt]
    /\ UNCHANGED exceptApi

\* a call that state_checked lets through or refuses
ApiCall(name, done) ==
    /\ api.calls < MaxApiCalls
    /\ IF state_checked(api, "IDLE")
       THEN api' = [done EXCEPT !.calls = @ + 1, !.last = name]
       ELSE api' = [api EXCEPT !.calls = @ + 1, !.last = name,
                               !.issued = <<>>,
                               !.result = "NotAvailableInState"]
    /\ UNCHANGED exceptApi

\* Printer0.tower_home: towerSyncWait, MoveException when it fails
tower_home ==
    \E ok \in BOOLEAN :
        ApiCall("tower_home",
                IF ok THEN [api EXCEPT !.issued = <<"towerSyncWait", "motorsHold">>,
                                       !.result = "None"]
                ELSE [api EXCEPT !.issued = <<"towerSyncWait">>,
                                 !.result = "MoveException"])

\* Printer0.tilt_home
tilt_home ==
    ApiCall("tilt_home",
            [api EXCEPT !.issued = <<"setTiltPosition", "tiltLayerDownWait",
                                     "tiltSyncWait", "tiltLayerUpWait",
                                     "motorsHold">>,
                        !.result = "None"])

\* Printer0.disable_motors
disable_motors ==
    ApiCall("disable_motors",
            [api EXCEPT !.issued = <<"motorsRelease">>, !.result = "None"])

\* tower_move and tilt_move: the profile when not moving, then the move to the
\* maximum or the minimum unless already there, or the stop
AxisJog(a, moving, speed, onLimit, ax) ==
    LET prof == IF moving THEN <<>> ELSE <<ax \o "Profile">>
    IN  IF speed # 0
        THEN IF moving /\ onLimit
             THEN [issued |-> prof, moving |-> moving, result |-> "False"]
             ELSE [issued |-> Append(prof, ax \o (IF speed > 0 THEN "ToMax" ELSE "ToMin")),
                   moving |-> TRUE, result |-> "True"]
        ELSE [issued |-> Append(prof, ax \o "Stop"), moving |-> FALSE,
              result |-> "True"]

\* Printer0.tower_move
tower_move ==
    \E speed \in {-1, 0, 1}, onLimit \in BOOLEAN :
        LET j == AxisJog(api, api.tower_moving, speed, onLimit, "tower")
        IN  ApiCall("tower_move",
                    [api EXCEPT !.issued = j.issued, !.tower_moving = j.moving,
                                !.result = j.result])

\* Printer0.tilt_move
tilt_move ==
    \E speed \in {-1, 0, 1}, onLimit \in BOOLEAN :
        LET j == AxisJog(api, api.tilt_moving, speed, onLimit, "tilt")
        IN  ApiCall("tilt_move",
                    [api EXCEPT !.issued = j.issued, !.tilt_moving = j.moving,
                                !.result = j.result])


\* ------------------------------------------------------- the specification
\* the values hwConfig can hold (upAndDownUvOn is read under blinkExposure only)
HwConfigs == {c \in [blinkExposure : BOOLEAN, tilt : BOOLEAN, upAndDownUvOn : BOOLEAN,
                     upAndDownEveryLayer : {0, 1}, upAndDownExpoComp : {1}] :
                 c.upAndDownUvOn => c.blinkExposure}

\* PrintConfig._parseData: the project of the exposure runs, two layers of
\* 0.05 mm over a first layer of 0.1 mm; times in tenths of a second
PrintConfigs ==
    {[totalLayers |-> TotalLayers,
      layerMicroStepsFirst |-> 80, layerMicroSteps |-> 40,
      layerMicroSteps2 |-> 40, layerMicroSteps3 |-> 40,
      expTimeFirst |-> 350, expTime |-> 80, expTime2 |-> 80, expTime3 |-> 80,
      fadeLayers |-> 10, slice2 |-> 9999998, slice3 |-> 9999999]}

\* Exposure.__init__, startProjectLoading, collectProjectData and prepare
Init ==
    /\ commands = <<>>
    /\ enqLog = <<>>
    /\ deqLog = <<>>
    /\ pc = "poll"
    /\ i = 0
    /\ frame = 1
    /\ command = NoCmd
    /\ whitePixels = 0
    /\ stuck = FALSE
    /\ canceled = FALSE
    /\ actualLayer = 0
    /\ hwConfig \in HwConfigs
    /\ perPartes \in BOOLEAN
    /\ uvLed = ~hwConfig.blinkExposure
    /\ motorsOn = TRUE
    /\ page = "print"
    /\ exposedLog = <<>>
    /\ rehomeLog = <<>>
    /\ endCause = "none"
    /\ uiPc = "idle"
    /\ wasStirring = TRUE
    /\ exposureCompensation = 0
    /\ config \in PrintConfigs
    /\ step = 0
    /\ etime = 0
    /\ position = 0
    /\ resinCount = 0
    /\ tilt = TiltParked
    /\ ret = NotCalled
    /\ axis = AxisIdle
    /\ homing = HomingIdle
    /\ profileSet = ProfileSetUnread
    /\ units = UnitsIdle
    /\ checks = ChecksIdle
    /\ towerOnTop = FALSE
    /\ tear = TearIdle
    /\ updown = UpdownIdle
    /\ api = ApiIdle

Next ==
    \/ doUpAndDown \/ doFeedMe \/ doFeedMeByButton \/ doPause \/ doContinue
    \/ doBack \/ doExitPrint \/ exitPrint
    \/ PollCommand \/ CommandUpAndDown \/ PeriodicUpAndDown \/ PauseWait
    \/ FeedMeEnter \/ FeedMeWait \/ FeedMeStir \/ LayerSetup
    \/ FrameMove \/ FrameExpose \/ FrameTiltDown
    \/ StuckEnter \/ StuckWait \/ StuckRehome \/ StuckErrorWait
    \/ LayerEnd \/ Finish \/ HandleException

Spec == Init /\ [][Next]_vars

\* ------------------------------------- the layer loop, iteration by iteration
\* run: one whole iteration of the layer loop when get_nowait raises
\* queue.Empty and doFrame succeeds: the periodic up and down, step and etime
\* of the layer, the compensation, position += step, the exposure, and
\* resinCount += whitePixels * pixel area * calcMM(step) / 1000
RunLayer ==
    /\ pc = "poll"
    /\ commands = <<>>
    /\ command' = NoCmd
    /\ step' = LayerStep(config, i)
    /\ etime' = LayerTime(config, i)
                 + (IF PeriodicDue THEN hwConfig.upAndDownExpoComp
                    ELSE exposureCompensation) * config.fadeLayers
    /\ exposureCompensation' = 0
    /\ actualLayer' = i + 1
    /\ position' = position + LayerStep(config, i)
    /\ \E wp \in WhitePixelCounts :
          /\ whitePixels' = wp
          /\ resinCount' = resinCount + wp * calcMM(LayerStep(config, i))
    /\ exposedLog' = Append(exposedLog, <<i, 1, etime'>>)
    /\ uvLed' = IF hwConfig.blinkExposure THEN FALSE ELSE uvLed
    /\ wasStirring' = FALSE
    /\ IF i + 1 < config.totalLayers
       THEN i' = i + 1 /\ pc' = "poll" /\ UNCHANGED endCause
       ELSE i' = i /\ pc' = "finish" /\ endCause' = "complete"
    /\ UNCHANGED <<commands, deqLog, frame, stuck, canceled, motorsOn, page,
                   rehomeLog, config>>
    /\ UNCHANGED uiVars
    /\ UNCHANGED <<ret, towerOnTop, hwVars>>

\* PrintConfig._parseData: projects with a fade of 3 or 4 layers, the change
\* layers slice2 and slice3 set, unset, in and out of order, and layer
\* heights as the file gives them (numfade alone is clamped, to 3..200)
LayerConfigs ==
    [totalLayers : {LayersInProject},
     layerMicroStepsFirst : {80}, layerMicroSteps : {40},
     layerMicroSteps2 : {20, -40}, layerMicroSteps3 : {80},
     expTimeFirst : {350, 50}, expTime : {80}, expTime2 : {60}, expTime3 : {100},
     fadeLayers : {3, 4}, slice2 : {2, 8, 9999998}, slice3 : {7, 9, 9999999}]

\* the state after Exposure.prepare for such a project, no perPartes exposure
InitLayers ==
    /\ commands = <<>>
    /\ enqLog = <<>>
    /\ deqLog = <<>>
    /\ pc = "poll"
    /\ i = 0
    /\ frame = 1
    /\ command = NoCmd
    /\ whitePixels = 0
    /\ stuck = FALSE
    /\ canceled = FALSE
    /\ actualLayer = 0
    /\ hwConfig \in {c \in HwConfigs : c.blinkExposure /\ c.tilt /\ ~c.upAndDownUvOn}
    /\ perPartes = FALSE
    /\ uvLed = ~hwConfig.blinkExposure
    /\ motorsOn = TRUE
    /\ page = "print"
    /\ exposedLog = <<>>
    /\ rehomeLog = <<>>
    /\ endCause = "none"
    /\ uiPc = "idle"
    /\ wasStirring = TRUE
    /\ exposureCompensation = 0
    /\ config \in LayerConfigs
    /\ step = 0
    /\ etime = 0
    /\ position = 0
    /\ resinCount = 0
    /\ tilt = TiltParked
    /\ ret = NotCalled
    /\ axis = AxisIdle
    /\ homing = HomingIdle
    /\ profileSet = ProfileSetUnread
    /\ units = UnitsIdle
    /\ checks = ChecksIdle
    /\ towerOnTop = FALSE
    /\ tear = TearIdle
    /\ updown = UpdownIdle
    /\ api = ApiIdle

NextLayers == RunLayer \/ Finish

SpecLayers == InitLayers /\ [][NextLayers]_vars

\* ------------------------------------------------- one tilt down of a layer
\* the printer between two exposures, the tilt levelled
InitTilt ==
    /\ Init
    /\ hwConfig.blinkExposure /\ hwConfig.tilt /\ ~hwConfig.upAndDownUvOn
    /\ hwConfig.upAndDownEveryLayer = 0
    /\ ~perPartes

NextTilt ==
    \/ TiltInitialRelease \/ TiltFinishProfile \/ TiltCycle \/ TiltEnsureBottom
    \/ TiltCheck \/ TiltUnstuck \/ TiltSyncEnsure
    \/ TiltUpInitial \/ TiltUpFinishProfile \/ TiltUpCycle

SpecTilt == InitTilt /\ [][NextTilt]_vars

\* ------------------------------------------ the tilt axis and its controller
NextAxis ==
    \/ AxisSetPosition \/ AxisMove \/ AxisStopRead \/ AxisStop
    \/ McTiltStep \/ McTowerStep

SpecAxis == InitTilt /\ [][NextAxis]_vars

\* ------------------------------------------------------- the home checks
NextHoming ==
    HomingStart \/ TiltHomeTestStep \/ TowerSensitivityStep \/ WizardTowerStep

SpecHoming == InitTilt /\ [][NextHoming]_vars

\* ----------------------------------------------------------- ProfileSet
NextProfileSet == ProfileSetInit \/ ProfileSetMutate \/ ProfileSetList

SpecProfileSet == InitTilt /\ [][NextProfileSet]_vars

\* ------------------------------------------- HwConfig: microsteps and nm
NextUnits == UnitsToNm \/ UnitsBack \/ UnitsFromNm

SpecUnits == InitTilt /\ [][NextUnits]_vars

\* ------------------------------------------- the resin check and its warning
NextChecks ==
    ResinCheck \/ CheckConfirmPrepare \/ confirm_print \/ cancel_print
    \/ ChecksPassed

SpecChecks == InitTilt /\ [][NextChecks]_vars

\* ------------------------------------------------ doFrame: the tear-off
NextTear == TearCollectProjectData \/ TearFirstFrame \/ TearSecondFrame

SpecTear == InitTilt /\ [][NextTear]_vars

\* ------------------------------------------------ doUpAndDown: the cover
NextUpdown ==
    \/ CoverToggle \/ UpdownStart \/ UpdownOnTop \/ UpdownSecond
    \/ UpdownCoverWait \/ UpdownBack \/ UpdownDone

SpecUpdown == InitTilt /\ [][NextUpdown]_vars

\* -------------------------------------------- Printer0: the motion calls
NextApi ==
    \/ ApiPageChange \/ tower_home \/ tilt_home \/ disable_motors
    \/ tower_move \/ tilt_move

SpecApi == InitTilt /\ [][NextApi]_vars

\* ------------------------------------------------------------- properties
\* the tokens got so far, in the order they were got
DeqToks == [k \in 1..Len(deqLog) |-> deqLog[k].tok]

\* the last entry of a non-empty log
Last(log) == log[Len(log)]

\* the places where the engine looks into the command queue
PollPoints == {"poll", "pauseWait", "feedmeWait", "stuckWait", "errorWait"}

\* the waits for the user the engine enters: pause, feed-me prompt, stuck prompt
UserWaits == {"pauseWait", "feedmeWait", "stuckWait"}

\* the end of the print as the display shows it: the error page is FAILURE, the
\* finished page is CANCELED with the canceled flag and FINISHED without it
ExposureState ==
    IF pc # "done" THEN "PRINTING"
    ELSE IF page = "error" THEN "FAILURE"
    ELSE IF canceled THEN "CANCELED"
    ELSE "FINISHED"

\* the layers whose first frame was exposed, in the order of exposure
FirstFrames == SelectSeq(exposedLog, LAMBDA e : e[2] = 1)

\* the layer indices of the first frames exposed so far, in order
FirstFrameLayers == [k \in 1..Len(FirstFrames) |-> FirstFrames[k][1]]

\* C1: tokens are got in exactly the order they were put: the tokens got so far,
\* followed by the tokens still queued, are the tokens put so far, in put order;
\* so no token is got before one that was put earlier.
C1_FifoOrder == DeqToks \o commands = enqLog

C1_Witness == Len(deqLog) >= 2 /\ deqLog[1].tok # deqLog[2].tok

\* C2: a token leaves the queue only at a poll point (the top of a layer
\* iteration or inside doWait); a step of a frame or of another motion primitive
\* takes nothing from the queue: what is queued stays, in place, and tokens put
\* meanwhile line up behind it.
C2_ObservedAtPollPoints ==
    [][/\ (deqLog' # deqLog => pc \in PollPoints)
       /\ (pc \notin PollPoints =>
              /\ Len(commands') >= Len(commands)
              /\ SubSeq(commands', 1, Len(commands)) = commands)]_vars

C2_Witness == pc = "frameTilt" /\ Len(commands) >= 2 /\ deqLog = <<>>

\* C3: once the engine waits in a pause, only a "continue" or an "exit" token
\* ends the wait; any other token leaves the engine paused.
C3_PauseEndsOnContinueOrExit ==
    [][(pc = "pauseWait" /\ pc' # "pauseWait") => GetNowait \in {"continue", "exit"}]_vars

\* an "exit" token was got at the top of a layer iteration
ExitAtPoll == \E k \in 1..Len(deqLog) : deqLog[k] = [tok |-> "exit", at |-> "poll"]

\* C4: when "exit" is got at the top of iteration i the loop is over: the engine
\* is in its closing part, and every exposure done belongs to a layer before i.
C4_ExitEndsLoop ==
    ExitAtPoll => /\ pc \in {"finish", "done"}
                  /\ \A k \in 1..Len(exposedLog) : exposedLog[k][1] < i

C4_Witness == ExitAtPoll /\ pc = "done" /\ i = 1 /\ exposedLog # <<>>

\* an "exit" token was got inside a wait for the user
ExitInWait ==
    \E k \in 1..Len(deqLog) : deqLog[k].tok = "exit" /\ deqLog[k].at \in UserWaits

\* C5: once "exit" was got inside a pause, a feed-me prompt or a stuck prompt,
\* no further frame is exposed.
C5_ExitCancelsEveryWait == [][ExitInWait => exposedLog' = exposedLog]_vars

\* C6: a print whose loop was ended by an "exit" token, once the page handler
\* that put the token has returned, is on the finished page with the canceled
\* flag set (CANCELED, not FAILURE); the "exit" is the last token got, and when
\* it was got in a pause the "pause" was got right before it.
C6_ExitEndsCanceled ==
    (pc = "done" /\ endCause = "exit" /\ uiPc = "idle") =>
        /\ ExposureState = "CANCELED"
        /\ page = "finished"
        /\ Last(deqLog).tok = "exit"
        /\ (Last(deqLog).at = "pauseWait" =>
               /\ Len(deqLog) >= 2
               /\ deqLog[Len(deqLog) - 1] = [tok |-> "pause", at |-> "poll"])

C6_Witness ==
    /\ pc = "done" /\ endCause = "exit" /\ uiPc = "idle"
    /\ enqLog = <<"pause", "exit">>
    /\ Len(deqLog) = 2 /\ deqLog[2].at = "pauseWait"

\* the engine is in doStuckRelease, before the answer of the user
StuckPcs == {"stuckEnter", "stuckWait"}

\* C7: after a failed tear-off the engine stays in doStuckRelease, exposing
\* nothing, until a token is got from the queue at the stuck prompt (or an
\* exception ends the print); the tilt is homed only right after that token.
C7_StuckWaitsForToken ==
    [][/\ (pc \in StuckPcs => exposedLog' = exposedLog)
       /\ (pc \in StuckPcs /\ pc' \notin StuckPcs /\ endCause' # "exception") =>
              /\ Len(deqLog') = Len(deqLog) + 1
              /\ Last(deqLog').at = "stuckWait"
       /\ (pc' = "rehome" /\ pc # "rehome") =>
              /\ pc = "stuckWait"
              /\ Len(deqLog') = Len(deqLog) + 1]_vars

C7_Witness ==
    /\ pc = "rehome"
    /\ deqLog # <<>> /\ Last(deqLog).at = "stuckWait"
    /\ exposedLog # <<>>

\* "continue" was got at the stuck prompt
ContinueAtStuck ==
    \E k \in 1..Len(deqLog) : deqLog[k] = [tok |-> "continue", at |-> "stuckWait"]

C9_StuckEndsCanceledOrFailed ==
    (pc = "done" /\ stuck) => ExposureState \in {"FAILURE", "CANCELED"}

\* C10: a print ended by an exception ends in FAILURE (the error page) with
\* the UV LED off and the motors released.
C10_ExceptionEndsSafe ==
    (pc = "done" /\ endCause = "exception") =>
        /\ ExposureState = "FAILURE"
        /\ ~uvLed
        /\ ~motorsOn

\* the engine is inside the first doFrame of the layer of this iteration
InFirstFrame == pc \in {"frameMove", "frameExpose", "frameTilt"} /\ frame = 1

\* the configured up/down compensation, in the unit of etime
UpAndDownComp == hwConfig.upAndDownExpoComp * config.fadeLayers

\* C11: after a "feedme" or "feedmeByButton" command was serviced at the top of
\* an iteration, the layer exposed next (the one of this iteration) is exposed
\* for its exposure time plus the configured up/down compensation.
C11_FeedMeCompensates ==
    (InFirstFrame /\ command \in {"feedme", "feedmeByButton"}) =>
        etime = LayerTime(config, i) + UpAndDownComp

\* C12: the wait of the feed-me prompt is left for the stirring and the next
\* layer only by a "continue" or a "back" token.
C12_FeedMeEndsOnContinueOrBack ==
    [][(pc = "feedmeWait" /\ pc' = "feedmeStir") => GetNowait \in {"continue", "back"}]_vars

\* C13: a pending compensation exists only between the up-and-down that set it
\* (the manual one of an "updown" command or the periodic one) and the setup of
\* the layer of the same iteration; that setup adds it to the exposure time of
\* the layer and clears it, the frames of the layer are exposed for that time,
\* and a layer set up with nothing pending gets its plain exposure time.
C13_CompensationOnce ==
    [][/\ (actualLayer' # actualLayer =>
              /\ etime' = LayerTime(config, i) + exposureCompensation * config.fadeLayers
              /\ exposureCompensation' = 0)
       /\ (exposedLog' # exposedLog =>
              /\ Last(exposedLog')[1] = actualLayer - 1
              /\ Last(exposedLog')[3] = etime
              /\ exposureCompensation = 0)
       /\ (exposureCompensation' # 0 =>
              /\ exposureCompensation' = hwConfig.upAndDownExpoComp
              /\ pc' \in {"periodic", "setup"} \/ endCause' = "exception"
              /\ command' = "updown" \/ PeriodicDue')]_vars

C13_Witness ==
    /\ Len(exposedLog) >= 2
    /\ exposedLog[1] = <<0, 1, LayerTime(config, 0) + UpAndDownComp>>
    /\ exposedLog[2] = <<1, 1, LayerTime(config, 1)>>
    /\ UpAndDownComp > 0

\* C14: while the engine waits in a pause and blinkExposure is off, the UV LED
\* is off.
C14_PausedLedOff == (pc = "pauseWait" /\ ~hwConfig.blinkExposure) => ~uvLed

C14_Witness ==
    /\ pc = "pauseWait" /\ ~hwConfig.blinkExposure
    /\ exposedLog # <<>> /\ Len(commands) >= 1

PeriodicComp(k) ==
    IF /\ hwConfig.upAndDownEveryLayer # 0
       /\ k # 0
       /\ k % hwConfig.upAndDownEveryLayer = 0
    THEN UpAndDownComp ELSE 0

\* the exposure time of the layer set up last, without that compensation
PlainTime == etime - PeriodicComp(actualLayer - 1)

\* C15: layer index 0 has the step height layerMicroStepsFirst and the time
\* expTimeFirst; layer indices 1 and 2 have the step height layerMicroSteps and
\* still the time expTimeFirst.
C15_FirstThreeLayers ==
    (actualLayer \in 1..3) =>
        /\ step = IF actualLayer = 1 THEN config.layerMicroStepsFirst
                  ELSE config.layerMicroSteps
        /\ PlainTime = config.expTimeFirst * config.fadeLayers

C15_Witness ==
    /\ actualLayer = 3
    /\ step = config.layerMicroSteps /\ step # config.layerMicroStepsFirst
    /\ PlainTime = config.expTimeFirst * config.fadeLayers
    /\ config.expTimeFirst # config.expTime
    /\ exposedLog[1][3] = config.expTimeFirst * config.fadeLayers

\* C16: with expTimeFirst > expTime the last layer of the fade, layer index
\* fadeLayers + 2, is exposed for a time strictly between expTime and
\* expTimeFirst.
C16_LastFadeLayerBetween ==
    (actualLayer = config.fadeLayers + 3 /\ config.expTimeFirst > config.expTime) =>
        /\ config.expTime * config.fadeLayers < PlainTime
        /\ PlainTime < config.expTimeFirst * config.fadeLayers

\* C17 as stated: from layer index fadeLayers + 3 on, a layer numbered below
\* slice2 has expTime and layerMicroSteps, a layer numbered from slice2 up to
\* slice3 - 1 the second pair, a layer numbered slice3 or above the third pair.
C17_SliceBuckets ==
    (actualLayer - 1 >= config.fadeLayers + 3) =>
        /\ (actualLayer < config.slice2 =>
               /\ step = config.layerMicroSteps
               /\ PlainTime = config.expTime * config.fadeLayers)
        /\ (actualLayer >= config.slice2 /\ actualLayer < config.slice3 =>
               /\ step = config.layerMicroSteps2
               /\ PlainTime = config.expTime2 * config.fadeLayers)
        /\ (actualLayer >= config.slice3 =>
               /\ step = config.layerMicroSteps3
               /\ PlainTime = config.expTime3 * config.fadeLayers)

\* C17, amended: from layer index fadeLayers + 3 on, a layer numbered below
\* slice2 has expTime and layerMicroSteps (also when slice3 is set below
\* slice2); a layer numbered from slice2 up to slice3 - 1 has the second pair;
\* a layer numbered slice3 or above, and not below slice2, has the third pair.
C17_SliceBucketsInOrder ==
    (actualLayer - 1 >= config.fadeLayers + 3) =>
        /\ (actualLayer < config.slice2 =>
               /\ step = config.layerMicroSteps
               /\ PlainTime = config.expTime * config.fadeLayers)
        /\ (actualLayer >= config.slice2 /\ actualLayer < config.slice3 =>
               /\ step = config.layerMicroSteps2
               /\ PlainTime = config.expTime2 * config.fadeLayers)
        /\ (actualLayer >= config.slice3 /\ actualLayer >= config.slice2 =>
               /\ step = config.layerMicroSteps3
               /\ PlainTime = config.expTime3 * config.fadeLayers)

C17_Witness ==
    /\ actualLayer = 9 /\ config.slice2 = 8 /\ config.slice3 = 9
    /\ config.fadeLayers = 3
    /\ step = config.layerMicroSteps3
    /\ PlainTime = config.expTime3 * config.fadeLayers
    /\ exposedLog[8][3] = config.expTime2 * config.fadeLayers + PeriodicComp(7)
    /\ exposedLog[7][3] = config.expTime * config.fadeLayers + PeriodicComp(6)

\* C19: the resin count never decreases over a layer whose white-pixel count
\* is not negative.
C19_ResinNonDecreasing == [][whitePixels' >= 0 => resinCount' >= resinCount]_vars

\* the tear-off moves ended on the endstop, within the homing tolerance
TearOffOnEndstop ==
    /\ tilt.tearOff.done
    /\ tilt.tearOff.endstop
    /\ -tiltHomingTolerance <= tilt.tearOff.position
    /\ tilt.tearOff.position <= tiltHomingTolerance

\* C20: when the tear-off moves end on the endstop with the position within
\* the tolerance, everything layer_down_wait_async does afterwards is to
\* return: no profile is set after the tear-off (no layerRelease), no move is
\* called, the unstuck loop does not run and the tilt is not homed again.
C20_NoUnstuckOnEndstop ==
    TearOffOnEndstop =>
        /\ tilt.pc \in {"ensureBottom", "check", "returned"}
        /\ tilt.moves = tilt.tearOff.moves
        /\ tilt.profileSets = tilt.tearOff.profileSets
        /\ tilt.actual_profile = tilt.profile.finish_profile
        /\ tilt.position = tilt.tearOff.position
        /\ tilt.count = 0
        /\ tilt.rehomes = 0

C20_Witness ==
    /\ TearOffOnEndstop
    /\ tilt.pc = "returned"
    /\ tilt.profile.tilt_cycles = 2 /\ tilt.profile.offset_steps > 0
    /\ tilt.moves = 3

\* C21 as stated: once the unstuck loop has exhausted the travel tiltMax
\* without the endstop, layer_down_wait_async ends by raising TiltHomeFailed.
C21_ExhaustedRaises ==
    (tilt.exhausted /\ tilt.pc \in {"returned", "homeFailed"})
        => tilt.pc = "homeFailed"

\* C21, amended: the unstuck loop never raises by itself; whether it ended on
\* the endstop or exhausted the travel, the tilt is homed once more (zero
\* retries), TiltHomeFailed is raised exactly when that homing fails, and
\* layer_down_wait_async returns when it succeeds.
C21_RaisesOnlyWhenRehomeFails ==
    /\ tilt.pc = "homeFailed" => (tilt.rehomes = 1 /\ tilt.homing_status # 0)
    /\ (tilt.count > 0 /\ tilt.pc = "returned")
           => (tilt.rehomes = 1 /\ tilt.homing_status = 0)
    /\ tilt.exhausted => (tilt.count >= tiltMax /\ tilt.pc # "unstuck")

C21_Witness ==
    /\ tilt.exhausted
    /\ tilt.pc = "returned"
    /\ tilt.rehomes = 1
    /\ tilt.count >= tiltMax

\* C22: a call of the position setter while the tilt is moving raises
\* TiltPositionFailed, sends no command to the controller beyond the "?mot"
\* query, and leaves the controller's position and the target position as
\* they were.
C22_SetWhileMovingRaises ==
    [][(axis.pc = "idle" /\ axis'.pc = "idle" /\ axis'.last = "position"
           /\ axis'.calls = axis.calls + 1 /\ AxisMoving(axis))
        => /\ axis'.raised = "TiltPositionFailed"
           /\ axis'.log = Append(axis.log, "?mot")
           /\ axis'.position = axis.position
           /\ axis'.target_position = axis.target_position
           /\ axis'.target = axis.target
           /\ axis'.mot = axis.mot]_vars

C22_Witness ==
    /\ axis.last = "position"
    /\ axis.raised = "TiltPositionFailed"
    /\ AxisMoving(axis)
    /\ axis.position # axis.target_position

C24_EndstopNotReachedEnds ==
    [][(homing'.homes = homing.homes + 1 /\ homing'.status = -2)
        => /\ homing'.pc = "done"
           /\ homing'.outcome \in {"TiltEndstopNotReached", "TowerEndstopNotReached"}
           /\ homing'.sensitivity = homing.sensitivity
           /\ homing'.updates = homing.updates
           /\ ~homing'.saved]_vars

C24_Witness ==
    /\ homing.proc = "towerSensitivity"
    /\ homing.status = -2
    /\ homing.outcome = "TowerEndstopNotReached"
    /\ homing.homes = 4 /\ homing.stalls = 1 /\ homing.sensitivity = 1

\* the number of homings every one of which ends with -3 that a home check
\* goes through before it gives up
StallRounds(h) ==
    IF h.proc = "tiltHomeTest" THEN 3
    ELSE IF h.proc = "towerSensitivity" THEN h.adjustLen - 2
    ELSE h.adjustLen - 1

\* every homing of the home check so far ended with -3
OnlyStalls(h) == h.pc # "idle" /\ h.stalls = h.homes

\* C25 as stated: while every homing ends with -3, each of them raises the
\* sensitivity by one, and the check fails once the sensitivity is past the
\* table.
C25_EachStallRaisesSensitivity ==
    OnlyStalls(homing) =>
        /\ homing.sensitivity =
              (IF homing.proc = "wizardTower" THEN -1 ELSE 0) + homing.stalls
        /\ homing.pc = "done" => homing.sensitivity >= homing.adjustLen - 2

\* C25, amended: a home check whose homings all end with -3 ends with "home
\* check failed" after a fixed number of homings and never before: the
\* sensitivity page after len - 2 of them and the tower check of the wizard
\* after len - 1, each -3 raising the sensitivity by one and starting the
\* count of successes over; the tilt home test after three, the sensitivity
\* untouched.
C25_StallsEndAfterFixedRounds ==
    OnlyStalls(homing) =>
        /\ homing.homes <= StallRounds(homing)
        /\ homing.pc = "done" <=> homing.homes = StallRounds(homing)
        /\ homing.pc = "done" =>
              homing.outcome \in {"TiltHomeCheckFailed", "TowerHomeCheckFailed"}
        /\ homing.proc = "tiltHomeTest" =>
              (homing.sensitivity = 0 /\ homing.updates = 0)
        /\ homing.proc = "towerSensitivity" =>
              (homing.sensitivity = homing.stalls /\ homing.tries = 3)
        /\ homing.proc = "wizardTower" =>
              (homing.sensitivity = homing.stalls - 1 /\ homing.tries = 0)

C25_Witness ==
    /\ OnlyStalls(homing)
    /\ homing.proc = "towerSensitivity"
    /\ homing.adjustLen = 5
    /\ homing.homes = 3
    /\ homing.outcome = "TowerHomeCheckFailed"

\* C26: list(profile_set) yields the declared profiles in declaration order,
\* the k-th of them with idx k - 1, whatever the order of the profile data
\* read and whatever was written to the profiles afterwards.
C26_DefinitionOrder ==
    profileSet.listed # <<>> =>
        /\ Len(profileSet.listed) = Len(DeclaredProfiles)
        /\ \A k \in DOMAIN profileSet.listed :
              /\ profileSet.listed[k].name = DeclaredProfiles[k]
              /\ profileSet.listed[k].idx = k - 1

C26_Witness ==
    /\ profileSet.listed # <<>>
    /\ profileSet.mutations = 1
    /\ profileSet.store[1].name = "moveFast"
    /\ profileSet.store[3].name = "homingSlow"
    /\ profileSet.store[3].values[2].value = 2

\* every declared profile has data for every one of its values
ProfileDataComplete(store) ==
    \A k \in DOMAIN DeclaredProfiles :
        \E m \in DOMAIN store :
            /\ store[m].name = DeclaredProfiles[k]
            /\ \A j \in 1..ValuesPerProfile : store[m].values[j].set

\* C27: the constructor of a ProfileSet raises ConfigException exactly when a
\* declared profile, or a value of one, has no data; a set that was
\* constructed has all its data, also after later writes.
C27_IncompleteDataRejected ==
    profileSet.pc # "unread" =>
        /\ profileSet.pc = "failed" <=> ~ProfileDataComplete(profileSet.store)
        /\ profileSet.pc = "failed" =>
              (profileSet.raised = "ConfigException" /\ profileSet.idx = <<>>)

C27_Witness ==
    /\ profileSet.pc = "failed"
    /\ profileSet.raised = "ConfigException"
    /\ Len(profileSet.store) = 3
    /\ \A k \in 1..3 : profileSet.store[k].values[1].set
    /\ \A k \in 1..2 : profileSet.store[k].values[2].set
    /\ ~profileSet.store[3].values[2].set

\* C28: a microstep count converted to nm and back differs from the count by
\* at most one microstep, and the conversion from nm takes the floor: the
\* result is the largest count whose nm do not exceed the distance, also for
\* distances past half a microstep and for negative ones.
C28_RoundTripWithinOne ==
    /\ units.pc = "back" =>
          /\ units.back - units.microsteps <= 1
          /\ units.microsteps - units.back <= 1
    /\ units.pc = "usteps" =>
          /\ tower_microsteps_to_nm(units.screwMm, units.usteps) <= units.nanometers
          /\ units.nanometers < tower_microsteps_to_nm(units.screwMm, units.usteps + 1)

C28_Witness ==
    /\ units.pc = "usteps"
    /\ units.screwMm = 4
    /\ units.nanometers = 0 - 4374
    /\ units.usteps = 0 - 4

\* C29: a call of Exposure.doXxx never waits and returns None: the caller is
\* never held inside put, whatever the engine does and however many tokens
\* are queued, and every token handed to a call is in the queue or was got.
C29_PutNeverBlocks ==
    /\ uiPc # "blocked"
    /\ enqLog # <<>> => ret = "None"
    /\ Len(commands) + Len(deqLog) = Len(enqLog)

C29_Witness ==
    /\ Len(commands) >= 2
    /\ enqLog = commands
    /\ ret = "None"
    /\ pc = "frameExpose"
    /\ uvLed
    /\ uiPc = "idle"

\* too little resin for the project was measured
ResinInsufficient == checks.pc # "idle" /\ checks.measured < checks.required

\* C30 as stated: too little resin never ends the print by itself; the print
\* ends only after the user rejected the warning.
C30_InsufficientNeverFatalAlone ==
    (ResinInsufficient /\ checks.state = "FAILURE") => checks.decision = "reject"

\* C30, amended: resin under the required volume but over the minimum raises
\* the warning ResinNotEnough, and the print starts only after the user
\* confirmed it and ends with WarningEscalation exactly when the user
\* rejected it; resin under the minimum is fatal (ResinTooLow) with no
\* decision of the user.
C30_WarningNeedsDecision ==
    /\ (ResinInsufficient /\ checks.measured > resinMinVolume) =>
          /\ checks.fatal_error # "ResinTooLow"
          /\ checks.pc = "warning" =>
                (checks.state = "CHECK_WARNING" /\ checks.warning = "ResinNotEnough")
          /\ checks.pc \in {"passed", "printing"} => checks.decision = "confirm"
          /\ checks.state = "PRINTING" => checks.decision = "confirm"
          /\ checks.pc = "ended" <=> checks.decision = "reject"
          /\ checks.decision = "reject" =>
                (checks.state = "FAILURE" /\ checks.fatal_error = "WarningEscalation")
    /\ (checks.pc # "idle" /\ checks.measured < resinMinVolume) =>
          /\ checks.state = "FAILURE"
          /\ checks.fatal_error = "ResinTooLow"
          /\ checks.decision = "none"
    /\ (checks.pc # "idle" /\ checks.measured > resinMinVolume
           /\ ~ResinInsufficient) =>
          (checks.warning = "none" /\ checks.fatal_error = "none")

C30_Witness ==
    /\ ResinInsufficient
    /\ checks.measured = resinMinVolume + 1
    /\ checks.decision = "reject"
    /\ checks.fatal_error = "WarningEscalation"
    /\ checks.page = "checks"

SlowLayersDone ==
    Cardinality({k \in DOMAIN tear.log :
                    ~tear.log[k].second /\ tear.log[k].whitePixels > whitePixelsThd})

\* C32: slowLayers is the budget less one for every slow layer done, as long
\* as it lasts, and never negative.
C32_BudgetLessSlowLayers ==
    (tear.pc = "first" /\ tear.tilt) =>
        /\ tear.slowLayers >= 0
        /\ tear.slowLayers =
              IF tear.layersSlow > SlowLayersDone
              THEN tear.layersSlow - SlowLayersDone ELSE 0

\* C33: in layer down and in layer up the finish movement is commanded with
\* the finish profile as exactly tilt_cycles sub-moves of one size, each one
\* waited for and followed by the tilt delay
FinishOver ==
    tilt.pc \in {"ensureBottom", "check", "unstuck", "syncEnsure", "returned",
                 "homeFailed", "levelled", "raised"}

C33_FinishInEqualCycles ==
    LET n == Len(tilt.subMoves) IN
    /\ n <= tilt.profile.tilt_cycles
    /\ n = tilt.cycle
    /\ tilt.delays = n
    /\ \A k \in 1..n :
          /\ tilt.subMoves[k].size = tilt.movePerCycle
          /\ tilt.subMoves[k].profile = tilt.profile.finish_profile
    /\ FinishOver => n = tilt.profile.tilt_cycles

C33_Witness ==
    /\ tilt.dir = "up"
    /\ tilt.pc = "levelled"
    /\ tilt.profile.tilt_cycles = 2
    /\ Len(tilt.subMoves) = 2
    /\ tilt.delays = 2
    /\ tilt.movePerCycle > 0

\* C34: no number of tilt cycles from 0 to 10 makes a layer movement raise
C34_NoCycleCountRaises ==
    tilt.pc # "raised"

\* C35: the unstuck loop ends after at most ceil(tiltMax / step) attempts,
\* and it makes no attempt once the endstop is triggered
C35_UnstuckBounded ==
    /\ Len(tilt.unstuckLog) * unstuckStep < tiltMax + unstuckStep
    /\ tilt.count = Len(tilt.unstuckLog) * unstuckStep
    /\ \A k \in 1..Len(tilt.unstuckLog) : ~tilt.unstuckLog[k].endstop
    /\ tilt.pc = "unstuck" /\ (tilt.endstop \/ tilt.count >= tiltMax)
          => ~ENABLED (TiltUnstuck /\ tilt'.pc = "unstuck")

C35_Witness ==
    /\ tilt.pc = "syncEnsure"
    /\ Len(tilt.unstuckLog) * unstuckStep >= tiltMax
    /\ tilt.exhausted

\* C36 as stated: the attempts of the unstuck loop set the tilt at offsets
\* that grow by one step from attempt to attempt
C36_OffsetsGrow ==
    \A k \in 1..Len(tilt.unstuckLog) :
        tilt.unstuckLog[k].position = k * unstuckStep

\* C36: every attempt of the unstuck loop sets the position to one step and
\* moves to the home position with the release profile; what grows by one
\* step per attempt is the count of the travel
C36_EachAttemptOneStep ==
    /\ \A k \in 1..Len(tilt.unstuckLog) :
          /\ tilt.unstuckLog[k].position = unstuckStep
          /\ tilt.unstuckLog[k].target = 0
          /\ tilt.unstuckLog[k].profile = "layerRelease"
    /\ tilt.count = Len(tilt.unstuckLog) * unstuckStep

C36_Witness ==
    /\ Len(tilt.unstuckLog) = 2
    /\ tilt.unstuckLog[2].position = unstuckStep
    /\ tilt.count = 2 * unstuckStep

\* C37: with the cover check on, an up-and-down whose wait finds the cover
\* open stays in the wait, with the tower not sent back, the resin not
\* stirred and the print page not shown, until the cover is closed
InTimedWait ==
    updown.pc \in {"wait", "coverWait"}

C37_OpenCoverBlocks ==
    [][/\ updown.coverCheck /\ InTimedWait /\ ~updown.cover
          => /\ updown'.pc \in {"wait", "coverWait"}
             /\ updown'.towerTarget = "top"
             /\ ~updown'.stirred
             /\ updown'.page = "wait"
       /\ updown.pc = "coverWait" /\ updown'.pc # "coverWait"
          => updown.cover]_vars

C37_Witness ==
    /\ updown.pc = "coverWait"
    /\ updown.coverCheck
    /\ ~updown.cover
    /\ updown.sec = updown.upAndDownWait
    /\ updown.towerTarget = "top"

\* "back" is got at the stuck prompt in this step
BackAtStuck ==
    /\ Len(deqLog') = Len(deqLog) + 1
    /\ Last(deqLog') = [tok |-> "back", at |-> "stuckWait"]

\* C38: a "back" got at the stuck prompt ends the loop with the print flagged
\* canceled; from then on no re-home is tried and no layer exposed, and the
\* engine goes on to its end by itself
C38_BackAtStuckCancels ==
    [][/\ BackAtStuck => pc' = "finish" /\ canceled' /\ endCause' = "stuckBack"
       /\ endCause = "stuckBack" =>
              /\ rehomeLog' = rehomeLog
              /\ exposedLog' = exposedLog
              /\ pc' \in {"finish", "done"}]_vars

\* a motion call of the printer API is made in this step
MotionCall == api'.calls = api.calls + 1

C40_LedOffThenFinished ==
    /\ page = "finished" => ~uvLed
    /\ (pc = "done" /\ endCause # "exception") =>
           /\ page = "finished"
           /\ ~uvLed
           /\ towerOnTop <=> ~stuck
    /\ towerOnTop => pc = "done" /\ ~stuck /\ endCause \in {"complete", "exit"}
    /\ (pc = "done" /\ stuck) => endCause \in {"stuckBack", "rehomeFailed", "exception"}

C40_Witness ==
    /\ pc = "done"
    /\ endCause = "rehomeFailed"
    /\ stuck /\ ~towerOnTop
    /\ page = "finished" /\ ~uvLed
    /\ exposedLog # <<>>

\* a print that ended with the loop run through, on the finished page with the
\* platform on top
C40_WitnessComplete ==
    /\ pc = "done" /\ endCause = "complete"
    /\ towerOnTop /\ ~stuck
    /\ page = "finished" /\ ~uvLed

====
